---- MODULE Spec2Model ----
(***************************************************************************)
(* Nutrition aggregation (models.py, routes/api.py, routes/dashboard.py),  *)
(* the views that write food_log (routes/food.py, routes/api.py,           *)
(* routes/barcode.py), the operations that create food rows                *)
(* (services/nutrition_api.py) and demo-data synthesis                     *)
(* (services/simple_demo_generator.py) of the food planner.                *)
(*                                                                         *)
(* Representation.  Nutrient amounts are kept exactly: an amount           *)
(* value * quantity / 100 is carried as the integer value * quantity, that *)
(* is in hundredths (suffix x100).  A quotient total / days is carried as  *)
(* the pair <<numerator, denominator>>.  A calendar date is its proleptic  *)
(* Gregorian ordinal (datetime.date.toordinal), a datetime is a record     *)
(* [day, min] with min the minute of the day (and sec, the seconds, in the *)
(* runs of the synthesizer).                                               *)
(***************************************************************************)
EXTENDS Integers, Sequences, FiniteSets, TLC

VARIABLES
    food,           \* table food: id -> [name, nutrition_data] (and upc_code)
    food_log,       \* table food_log: committed rows, in rowid order
    now,            \* the clock: [day, min]
    resp,           \* the response of the last request / the result of the last run
    pc,             \* position of the synthesizer run
    attempt,        \* connection attempt of the retry loop (0-based)
    conns,          \* database connections opened by the run and not yet closed
    pending,        \* rows inserted by the run's open transaction, not yet committed
    run,            \* inputs and locals of the synthesizer run
    db,             \* the database file: [file, tables, user]
    requests        \* barcode lookups in flight: id -> [pc, upc, ...]

vars == <<food, food_log, now, resp, pc, attempt, conns, pending, run, db, requests>>

\* What the request handlers that run in one step leave alone.
synthVars == <<pc, attempt, conns, pending, run, db, requests>>

----------------------------------------------------------------------------
(* Bounds of the model *)

MaxLogs == 2        \* rows the request handlers may add to food_log
MaxTicks == 1       \* days the clock may advance
MaxRows == 2        \* rows one synthesizer run may insert
MaxFoods == 2       \* rows the food-creating operations may add to food
MaxDayRows == 5     \* rows a run with a one-food catalog may insert
MaxRangeRows == 1   \* rows a run followed for its day loop may insert

----------------------------------------------------------------------------
(* JSON values stored in a nutrient profile *)

Num(n) == [kind |-> "num", n |-> n, s |-> ""]
Null == [kind |-> "null", n |-> 0, s |-> ""]
Bool(b) == [kind |-> "bool", n |-> IF b THEN 1 ELSE 0, s |-> ""]
Str(s) == [kind |-> "str", n |-> 0, s |-> s]
List == [kind |-> "list", n |-> 0, s |-> ""]

\* The strings float() accepts, with their values (surrounding blanks are stripped).
StrAsFloat == [s \in {"120", " 600 "} |-> IF s = "120" THEN 120 ELSE 600]

\* float(v): the value, or the exception float raises.
PyFloat(v) ==
    CASE v.kind = "num"  -> [exc |-> "", n |-> v.n]
      [] v.kind = "bool" -> [exc |-> "", n |-> v.n]
      [] v.kind = "str"  -> IF v.s \in DOMAIN StrAsFloat
                            THEN [exc |-> "", n |-> StrAsFloat[v.s]]
                            ELSE [exc |-> "ValueError", n |-> 0]
      [] v.kind = "null" -> [exc |-> "TypeError", n |-> 0]
      [] OTHER           -> [exc |-> "TypeError", n |-> 0]

----------------------------------------------------------------------------
(* The column food.nutrition_data: NULL, the empty string, the text of a   *)
(* JSON object, the text of another JSON value, or text that is not JSON.  *)

NoKeys == [k \in {} |-> Null]
ColNull == [kind |-> "null", obj |-> NoKeys]
ColEmpty == [kind |-> "empty", obj |-> NoKeys]
ColObject(o) == [kind |-> "object", obj |-> o]
ColNonObject == [kind |-> "nonobject", obj |-> NoKeys]
ColMalformed == [kind |-> "malformed", obj |-> NoKeys]

\* Food.get_nutrition_data: json.loads of the column, {} when it is falsy.
get_nutrition_data(f) ==
    LET col == f.nutrition_data IN
    CASE col.kind \in {"null", "empty"} -> [exc |-> "", isdict |-> TRUE, d |-> NoKeys]
      [] col.kind = "object"            -> [exc |-> "", isdict |-> TRUE, d |-> col.obj]
      [] col.kind = "nonobject"         -> [exc |-> "", isdict |-> FALSE, d |-> NoKeys]
      [] OTHER                          -> [exc |-> "JSONDecodeError", isdict |-> FALSE, d |-> NoKeys]

\* dict.get(key, default)
DictGet(d, key, default) == IF key \in DOMAIN d THEN d[key] ELSE default

\* get_calories with the synthesizer's default of 200 for an absent key.
get_calories_default200(log) ==
    LET food_nutrition == get_nutrition_data(food[log.food_id]) IN
    IF food_nutrition.exc # "" THEN [exc |-> food_nutrition.exc, x100 |-> 0]
    ELSE IF ~food_nutrition.isdict THEN [exc |-> "AttributeError", x100 |-> 0]
    ELSE LET v == DictGet(food_nutrition.d, "calories_per_100g", Num(200))
             fl == PyFloat(v)
             calories_per_100g == IF v.kind = "null" THEN 0
                                  ELSE IF fl.exc = "" THEN fl.n ELSE 0
         IN [exc |-> "", x100 |-> calories_per_100g * log.quantity]

\* FoodLog.get_calories: (calories_per_100g * quantity) / 100, in hundredths.
get_calories(log) ==
    LET food_nutrition == get_nutrition_data(food[log.food_id]) IN
    IF food_nutrition.exc # "" THEN [exc |-> food_nutrition.exc, x100 |-> 0]
    ELSE IF ~food_nutrition.isdict THEN [exc |-> "AttributeError", x100 |-> 0]
    ELSE LET v == DictGet(food_nutrition.d, "calories_per_100g", Num(0))
             fl == PyFloat(v)
             calories_per_100g == IF v.kind = "null" THEN 0
                                  ELSE IF fl.exc = "" THEN fl.n ELSE 0
         IN [exc |-> "", x100 |-> calories_per_100g * log.quantity]

\* FoodLog.get_nutrients: every key float() accepts, scaled by the quantity.
get_nutrients(log) ==
    LET food_nutrition == get_nutrition_data(food[log.food_id]) IN
    IF food_nutrition.exc # "" THEN [exc |-> food_nutrition.exc, d |-> NoKeys]
    ELSE IF ~food_nutrition.isdict THEN [exc |-> "AttributeError", d |-> NoKeys]
    ELSE LET d == food_nutrition.d
             kept == {k \in DOMAIN d : d[k].kind = "null" \/ PyFloat(d[k]).exc = ""}
         IN [exc |-> "",
             d |-> [k \in kept |-> (IF d[k].kind = "null" THEN 0 ELSE PyFloat(d[k]).n)
                                    * log.quantity]]

----------------------------------------------------------------------------
(* Dates: datetime.date holds ordinals 1 .. 3652059 (0001-01-01 .. 9999-12-31) *)

MinOrdinal == 1
MaxOrdinal == 3652059

\* date - timedelta(days=n): the date, or OverflowError outside the date range.
DateMinusDays(d, n) ==
    IF d - n < MinOrdinal \/ d - n > MaxOrdinal
    THEN [exc |-> "OverflowError", day |-> 0]
    ELSE [exc |-> "", day |-> d - n]

RECURSIVE SumSeq(_)
SumSeq(s) == IF s = <<>> THEN 0 ELSE Head(s) + SumSeq(Tail(s))

----------------------------------------------------------------------------
(* Nutrition aggregator: routes/api.py nutrition_summary *)

Users == {1, 2}

\* FoodLog.query.filter(user_id == u, start <= date(logged_at) <= end).all()
\* The range query without its filter on the owner.
LogsInRange_allUsers(u, start_date, end_date) ==
    SelectSeq(food_log, LAMBDA r : /\ r.logged_at.day >= start_date
                                   /\ r.logged_at.day <= end_date)

\* FoodLog.query.filter(user_id == current_user.id, date(logged_at) between
\* start_date and end_date)
LogsInRange(u, start_date, end_date) ==
    SelectSeq(food_log, LAMBDA r : /\ r.user_id = u
                                   /\ r.logged_at.day >= start_date
                                   /\ r.logged_at.day <= end_date)

\* daily_data with a bucket for every date of the requested range.
DailyDates_everyDate(logs, start_date, end_date) == start_date..end_date

\* The keys of daily_data: a bucket is created when a log of that date is met.
DailyDates(logs, start_date, end_date) == {logs[i].logged_at.day : i \in 1..Len(logs)}

\* One nutrient of one date bucket: the sum over the date's logs that carry the key.
BucketNutrient(logs, d, key) ==
    SumSeq([i \in 1..Len(logs) |->
              IF logs[i].logged_at.day = d /\ key \in DOMAIN get_nutrients(logs[i]).d
              THEN get_nutrients(logs[i]).d[key] ELSE 0])

DailyData(logs, start_date, end_date) ==
    [d \in DailyDates(logs, start_date, end_date) |->
        [calories |-> SumSeq([i \in 1..Len(logs) |->
                        IF logs[i].logged_at.day = d THEN get_calories(logs[i]).x100 ELSE 0]),
         protein  |-> BucketNutrient(logs, d, "protein_per_100g"),
         carbs    |-> BucketNutrient(logs, d, "carbs_per_100g"),
         fat      |-> BucketNutrient(logs, d, "fat_per_100g"),
         items    |-> Cardinality({i \in 1..Len(logs) : logs[i].logged_at.day = d})]]

\* The average taken over the dates that have entries.
AvgDailyCalories_daysWithData(total_calories, days, daily_data) ==
    IF DOMAIN daily_data # {} THEN <<total_calories, Cardinality(DOMAIN daily_data)>>
    ELSE <<0, 1>>

\* avg_daily_calories = total_calories / days if days > 0 else 0
AvgDailyCalories(total_calories, days, daily_data) ==
    IF days > 0 THEN <<total_calories, days>> ELSE <<0, 1>>

ErrorResponse(u, days, e) ==
    [op |-> "nutrition_summary", user |-> u, days |-> days, today |-> now.day,
     success |-> FALSE, status |-> 500, error |-> e]

\* The JSON body nutrition_summary returns for user u and ?days=days.
nutrition_summary(u, days) ==
    LET end_date == now.day
        start == DateMinusDays(end_date, days - 1)
        logs == LogsInRange(u, start.day, end_date)
        raised == {i \in 1..Len(logs) : get_calories(logs[i]).exc # ""}
        total_calories == SumSeq([i \in 1..Len(logs) |-> get_calories(logs[i]).x100])
        daily_data == DailyData(logs, start.day, end_date)
    IN  IF start.exc # "" THEN ErrorResponse(u, days, start.exc)
        ELSE IF raised # {}
        THEN ErrorResponse(u, days, get_calories(logs[CHOOSE i \in raised :
                                        \A j \in raised : i <= j]).exc)
        ELSE [op |-> "nutrition_summary", user |-> u, days |-> days, today |-> now.day,
              success |-> TRUE, status |-> 200,
              total_calories |-> total_calories,
              total_items |-> Len(logs),
              avg_daily_calories |-> AvgDailyCalories(total_calories, days, daily_data),
              daily_data |-> daily_data,
              period_days |-> days]

----------------------------------------------------------------------------
(* Dashboard nutrition view: routes/dashboard.py nutrition *)

\* The keys every date bucket of nutrition_data is created with.
BucketKeys == {"calories", "protein", "carbs", "fat", "fiber", "sugar", "sodium"}

\* The view's outcome when an exception leaves it.
ViewError(u, days, e) ==
    [op |-> "nutrition", user |-> u, days |-> days, today |-> now.day,
     raised |-> TRUE, error |-> e]

\* The per-day map the view hands to its template for user u and ?days=days:
\* get_calories goes to the calories bucket, and a key of get_nutrients is
\* added to the bucket that has the same name as the key.
dashboard_nutrition(u, days) ==
    LET end_date == now.day
        start == DateMinusDays(end_date, days - 1)
        logs == LogsInRange(u, start.day, end_date)
        raised == {i \in 1..Len(logs) : get_calories(logs[i]).exc # ""}
    IN  IF start.exc # "" THEN ViewError(u, days, start.exc)
        ELSE IF raised # {}
        THEN ViewError(u, days, get_calories(logs[CHOOSE i \in raised :
                                     \A j \in raised : i <= j]).exc)
        ELSE [op |-> "nutrition", user |-> u, days |-> days, today |-> now.day,
              raised |-> FALSE,
              nutrition_data |->
                [d \in DailyDates(logs, start.day, end_date) |->
                    [k \in BucketKeys |->
                        (IF k = "calories"
                         THEN SumSeq([i \in 1..Len(logs) |->
                                 IF logs[i].logged_at.day = d
                                 THEN get_calories(logs[i]).x100 ELSE 0])
                         ELSE 0)
                        + BucketNutrient(logs, d, k)]]]

\* routes/dashboard.py analytics: the window starts 30 days before today.
ANALYTICS_DAYS == 30

\* What the analytics view hands to its template for user u: the calories per
\* date that has entries, their average over those dates and the counts per
\* meal type.  get_calories raising leaves the view.
dashboard_analytics(u) ==
    LET start_date == DateMinusDays(now.day, ANALYTICS_DAYS).day
        logs == SelectSeq(food_log, LAMBDA r : r.user_id = u /\ r.logged_at.day >= start_date)
        failing == {i \in 1..Len(logs) : get_calories(logs[i]).exc # ""}
        dates == {logs[i].logged_at.day : i \in 1..Len(logs)}
        daily_calories == [d \in dates |->
            SumSeq([i \in 1..Len(logs) |->
                IF logs[i].logged_at.day = d THEN get_calories(logs[i]).x100 ELSE 0])]
        total_days == Cardinality(dates)
        total == SumSeq([i \in 1..Len(logs) |-> get_calories(logs[i]).x100])
    IN  IF failing # {}
        THEN [op |-> "analytics", user |-> u, today |-> now.day, raised |-> TRUE]
        ELSE [op |-> "analytics", user |-> u, today |-> now.day, raised |-> FALSE,
              daily_calories |-> daily_calories,
              total_days |-> total_days,
              avg_daily_calories |-> IF total_days > 0 THEN <<total, total_days>> ELSE <<0, 1>>,
              meal_patterns |-> [m \in {logs[i].meal_type : i \in 1..Len(logs)} |->
                                   Cardinality({i \in 1..Len(logs) : logs[i].meal_type = m})]]

----------------------------------------------------------------------------
(* Request handlers that build the food_log table *)

AllTables == {"food", "user", "food_log"}
\* A database file with the three tables; user holds the rows of table user.
SqliteFile ==
    [file |-> "sqlite", tables |-> AllTables,
     user |-> <<[id |-> 1, daily_calorie_goal |-> 2000], [id |-> 2, daily_calorie_goal |-> 1800]>>]

\* The locals of a run that has not started, for user u and months m; budget
\* is the number of rows the run is followed to insert, visited the days the
\* loop body has been entered for.
Idle(u, m) ==
    [user_id |-> u, months |-> m, conn |-> 0, available_foods |-> <<>>,
     end_date |-> [day |-> 0, min |-> 0], start_date |-> [day |-> 0, min |-> 0],
     current_date |-> [day |-> 0, min |-> 0],
     logs_created |-> 0, total_calories |-> 0, meal_counts |-> <<>>,
     dates_with_logs |-> {}, before |-> <<>>, generated |-> <<>>,
     earlier |-> <<>>, budget |-> MaxRows, visited |-> <<>>]

\* The synthesizer is not called.
SynthIdle ==
    /\ pc = "idle" /\ attempt = 0 /\ conns = {} /\ pending = <<>> /\ requests = <<>>
    /\ run = Idle(0, 0) /\ db = SqliteFile

NoNote == [text |-> "", day |-> 0]

\* routes/food.py log (POST).  An absent or unparsable form field is 0 or "".
Log(u, food_id, quantity, meal_type, commit_ok) ==
    /\ Len(food_log) < MaxLogs
    /\ IF food_id = 0 \/ quantity = 0 \/ meal_type = ""
       THEN /\ resp' = [op |-> "log", ok |-> FALSE]
            /\ UNCHANGED food_log
       ELSE IF quantity <= 0
       THEN /\ resp' = [op |-> "log", ok |-> FALSE]
            /\ UNCHANGED food_log
       ELSE IF food_id \notin DOMAIN food
       THEN /\ resp' = [op |-> "log", ok |-> FALSE]
            /\ UNCHANGED food_log
       ELSE IF ~commit_ok
       THEN /\ resp' = [op |-> "log", ok |-> FALSE]
            /\ UNCHANGED food_log
       ELSE /\ resp' = [op |-> "log", ok |-> TRUE]
            /\ food_log' = Append(food_log,
                   [user_id |-> u, food_id |-> food_id, quantity |-> quantity,
                    meal_type |-> meal_type, logged_at |-> now, notes |-> NoNote])
    /\ UNCHANGED <<food, now, synthVars>>

\* A day passes.
Analytics(u) ==
    /\ resp' = dashboard_analytics(u)
    /\ UNCHANGED <<food, food_log, now, synthVars>>

Tick(first_day) ==
    /\ now.day < first_day + MaxTicks
    /\ now' = [now EXCEPT !.day = @ + 1]
    /\ UNCHANGED <<food, food_log, resp, synthVars>>

\* models.py FoodLog.get_calories called on the row at position i.
GetCalories(i) ==
    /\ i \in 1..Len(food_log)
    /\ resp' = [op |-> "get_calories", log |-> food_log[i],
                exc |-> get_calories(food_log[i]).exc,
                x100 |-> get_calories(food_log[i]).x100]
    /\ UNCHANGED <<food, food_log, now, synthVars>>

\* models.py FoodLog.get_nutrients called on the row at position i.
GetNutrients(i) ==
    /\ i \in 1..Len(food_log)
    /\ resp' = [op |-> "get_nutrients", log |-> food_log[i],
                exc |-> get_nutrients(food_log[i]).exc,
                d |-> get_nutrients(food_log[i]).d]
    /\ UNCHANGED <<food, food_log, now, synthVars>>

\* GET /dashboard/nutrition?days=days by user u.
Nutrition(u, days) ==
    /\ resp' = dashboard_nutrition(u, days)
    /\ UNCHANGED <<food, food_log, now, synthVars>>

\* GET /nutrition/summary?days=days by user u.
NutritionSummary(u, days) ==
    /\ resp' = nutrition_summary(u, days)
    /\ UNCHANGED <<food, food_log, now, synthVars>>

\* routes/barcode.py log_scanned: the same form and tests as food.log.
LogScanned(u, food_id, quantity, meal_type, commit_ok) ==
    /\ Len(food_log) < MaxLogs
    /\ IF food_id = 0 \/ quantity = 0 \/ meal_type = ""
       THEN /\ resp' = [op |-> "log_scanned", ok |-> FALSE]
            /\ UNCHANGED food_log
       ELSE IF quantity <= 0
       THEN /\ resp' = [op |-> "log_scanned", ok |-> FALSE]
            /\ UNCHANGED food_log
       ELSE IF food_id \notin DOMAIN food
       THEN /\ resp' = [op |-> "log_scanned", ok |-> FALSE]
            /\ UNCHANGED food_log
       ELSE IF ~commit_ok
       THEN /\ resp' = [op |-> "log_scanned", ok |-> FALSE]
            /\ UNCHANGED food_log
       ELSE /\ resp' = [op |-> "log_scanned", ok |-> TRUE]
            /\ food_log' = Append(food_log,
                   [user_id |-> u, food_id |-> food_id, quantity |-> quantity,
                    meal_type |-> meal_type, logged_at |-> now, notes |-> NoNote])
    /\ UNCHANGED <<food, now, synthVars>>

\* bool(v) of a JSON value
Truthy(v) ==
    CASE v.kind = "num"  -> v.n # 0
      [] v.kind = "bool" -> v.n = 1
      [] v.kind = "str"  -> v.s # ""
      [] v.kind = "null" -> FALSE
      [] OTHER           -> TRUE

\* v <= 0 of a JSON value: the answer, or TypeError for text and lists.
LeqZero(v) ==
    IF v.kind \in {"num", "bool"} THEN [exc |-> "", b |-> v.n <= 0]
    ELSE [exc |-> "TypeError", b |-> FALSE]

\* routes/api.py log_food: the fields come from the JSON body as they are; an
\* absent key reads as null.  status 0 stands for an exception that leaves the
\* view.
LogFood(u, csrf_ok, data, commit_ok) ==
    /\ Len(food_log) < MaxLogs
    /\ IF ~csrf_ok
       THEN /\ resp' = [op |-> "log_food", ok |-> FALSE, status |-> 400]
            /\ UNCHANGED food_log
       ELSE IF ~(Truthy(data.food_id) /\ Truthy(data.quantity) /\ Truthy(data.meal_type))
       THEN /\ resp' = [op |-> "log_food", ok |-> FALSE, status |-> 400]
            /\ UNCHANGED food_log
       ELSE IF LeqZero(data.quantity).exc # ""
       THEN /\ resp' = [op |-> "log_food", ok |-> FALSE, status |-> 0]
            /\ UNCHANGED food_log
       ELSE IF LeqZero(data.quantity).b
       THEN /\ resp' = [op |-> "log_food", ok |-> FALSE, status |-> 400]
            /\ UNCHANGED food_log
       ELSE IF data.food_id.n \notin DOMAIN food
       THEN /\ resp' = [op |-> "log_food", ok |-> FALSE, status |-> 404]
            /\ UNCHANGED food_log
       ELSE IF ~commit_ok
       THEN /\ resp' = [op |-> "log_food", ok |-> FALSE, status |-> 500]
            /\ UNCHANGED food_log
       ELSE /\ resp' = [op |-> "log_food", ok |-> TRUE, status |-> 200]
            /\ food_log' = Append(food_log,
                   [user_id |-> u, food_id |-> data.food_id.n,
                    quantity |-> data.quantity.n,
                    meal_type |-> data.meal_type.s, logged_at |-> now, notes |-> NoNote])
    /\ UNCHANGED <<food, now, synthVars>>

\* session.delete(row): the table without the row at position i.
RemoveAt(table, i) == SubSeq(table, 1, i - 1) \o SubSeq(table, i + 1, Len(table))

\* delete_log without the ownership test.
DeleteLog_anyUser(u, log_id, commit_ok) ==
    /\ IF log_id \notin 1..Len(food_log)
       THEN /\ resp' = [op |-> "delete_log", user |-> u, log_id |-> log_id, ok |-> FALSE]
            /\ UNCHANGED food_log
       ELSE IF ~commit_ok
       THEN /\ resp' = [op |-> "delete_log", user |-> u, log_id |-> log_id, ok |-> FALSE]
            /\ UNCHANGED food_log
       ELSE /\ resp' = [op |-> "delete_log", user |-> u, log_id |-> log_id, ok |-> TRUE]
            /\ food_log' = RemoveAt(food_log, log_id)
    /\ UNCHANGED <<food, now, synthVars>>

\* routes/food.py delete_log.  log_id is followed as the position of the row
\* among the stored rows; an id without a row is answered with 404.
DeleteLog(u, log_id, commit_ok) ==
    /\ IF log_id \notin 1..Len(food_log)
       THEN /\ resp' = [op |-> "delete_log", user |-> u, log_id |-> log_id, ok |-> FALSE]
            /\ UNCHANGED food_log
       ELSE IF food_log[log_id].user_id # u
       THEN /\ resp' = [op |-> "delete_log", user |-> u, log_id |-> log_id, ok |-> FALSE]
            /\ UNCHANGED food_log
       ELSE IF ~commit_ok
       THEN /\ resp' = [op |-> "delete_log", user |-> u, log_id |-> log_id, ok |-> FALSE]
            /\ UNCHANGED food_log
       ELSE /\ resp' = [op |-> "delete_log", user |-> u, log_id |-> log_id, ok |-> TRUE]
            /\ food_log' = RemoveAt(food_log, log_id)
    /\ UNCHANGED <<food, now, synthVars>>

\* edit_log without the tests of the quantity.
EditLog_anyQuantity(u, log_id, quantity, meal_type, notes, commit_ok) ==
    /\ IF log_id \notin 1..Len(food_log)
       THEN /\ resp' = [op |-> "edit_log", user |-> u, log_id |-> log_id, ok |-> FALSE]
            /\ UNCHANGED food_log
       ELSE IF food_log[log_id].user_id # u
       THEN /\ resp' = [op |-> "edit_log", user |-> u, log_id |-> log_id, ok |-> FALSE]
            /\ UNCHANGED food_log
       ELSE IF meal_type = ""
       THEN /\ resp' = [op |-> "edit_log", user |-> u, log_id |-> log_id, ok |-> FALSE]
            /\ UNCHANGED food_log
       ELSE IF ~commit_ok
       THEN /\ resp' = [op |-> "edit_log", user |-> u, log_id |-> log_id, ok |-> FALSE]
            /\ UNCHANGED food_log
       ELSE /\ resp' = [op |-> "edit_log", user |-> u, log_id |-> log_id, ok |-> TRUE]
            /\ food_log' = [food_log EXCEPT ![log_id] =
                   [@ EXCEPT !.quantity = quantity, !.meal_type = meal_type,
                             !.notes = [text |-> notes, day |-> 0]]]
    /\ UNCHANGED <<food, now, synthVars>>

\* routes/food.py edit_log (POST).  An absent or unparsable quantity is 0.
EditLog(u, log_id, quantity, meal_type, notes, commit_ok) ==
    /\ IF log_id \notin 1..Len(food_log)
       THEN /\ resp' = [op |-> "edit_log", user |-> u, log_id |-> log_id, ok |-> FALSE]
            /\ UNCHANGED food_log
       ELSE IF food_log[log_id].user_id # u
       THEN /\ resp' = [op |-> "edit_log", user |-> u, log_id |-> log_id, ok |-> FALSE]
            /\ UNCHANGED food_log
       ELSE IF quantity = 0 \/ quantity <= 0
       THEN /\ resp' = [op |-> "edit_log", user |-> u, log_id |-> log_id, ok |-> FALSE]
            /\ UNCHANGED food_log
       ELSE IF meal_type = ""
       THEN /\ resp' = [op |-> "edit_log", user |-> u, log_id |-> log_id, ok |-> FALSE]
            /\ UNCHANGED food_log
       ELSE IF ~commit_ok
       THEN /\ resp' = [op |-> "edit_log", user |-> u, log_id |-> log_id, ok |-> FALSE]
            /\ UNCHANGED food_log
       ELSE /\ resp' = [op |-> "edit_log", user |-> u, log_id |-> log_id, ok |-> TRUE]
            /\ food_log' = [food_log EXCEPT ![log_id] =
                   [@ EXCEPT !.quantity = quantity, !.meal_type = meal_type,
                             !.notes = [text |-> notes, day |-> 0]]]
    /\ UNCHANGED <<food, now, synthVars>>

----------------------------------------------------------------------------
(* Operations that create food rows: services/nutrition_api.py, food.add_custom *)
(* and barcode.scan.  A food row created here is [name, nutrition_data,     *)
(* upc_code], with upc_code "" for NULL.                                    *)

\* safe_float(value, default): float(value), default for None and for a value
\* float() rejects.
safe_float(value, default) ==
    IF value.kind = "null" THEN default
    ELSE IF PyFloat(value).exc = "" THEN PyFloat(value).n
    ELSE default

\* The nutriments key each stored key is read from (the seven basic keys; the
\* further keys of the profile are read the same way).
NutrimentKey ==
    [k \in {"calories_per_100g", "protein_per_100g", "carbs_per_100g", "fat_per_100g",
            "fiber_per_100g", "sugar_per_100g", "sodium_per_100g"} |->
        CASE k = "calories_per_100g" -> "energy-kcal_100g"
          [] k = "protein_per_100g"  -> "proteins_100g"
          [] k = "carbs_per_100g"    -> "carbohydrates_100g"
          [] k = "fat_per_100g"      -> "fat_100g"
          [] k = "fiber_per_100g"    -> "fiber_100g"
          [] k = "sugar_per_100g"    -> "sugars_100g"
          [] OTHER                   -> "sodium_100g"]

extract_enhanced_nutrition_data(nutriments) ==
    [k \in DOMAIN NutrimentKey |->
        Num(safe_float(DictGet(nutriments, NutrimentKey[k], Num(0)), 0))]

\* The scores, the vegan flag and the allergen tags of a product (the other
\* keys hold text and lists of tags).
extract_product_quality_data(product) ==
    [k \in {"nutri_score_score", "nova_group", "is_vegan", "allergens"} |->
        CASE k = "nutri_score_score" -> Num(safe_float(product.nutriscore_score, 0))
          [] k = "nova_group"        -> Num(safe_float(product.nova_group, 0))
          [] k = "is_vegan"          -> Bool(product.vegan)
          [] OTHER                   -> List]

\* {**nutrition_data, **quality_data}
Combined(nutrition_data, quality_data) ==
    [k \in DOMAIN nutrition_data \cup DOMAIN quality_data |->
        IF k \in DOMAIN quality_data THEN quality_data[k] ELSE nutrition_data[k]]

\* Food.query.filter_by(upc_code=upc).first() finds a row.
HasUpc(table, upc) == \E i \in 1..Len(table) : table[i].upc_code = upc

\* Food.query.filter_by(upc_code=upc).first().id
IdOfUpc(table, upc) ==
    CHOOSE i \in 1..Len(table) :
        table[i].upc_code = upc /\ \A j \in 1..(i - 1) : table[j].upc_code # upc

\* The row built from a product of the external database.
FoodOfProduct(product, upc_code) ==
    [name |-> product.product_name,
     nutrition_data |-> ColObject(Combined(extract_enhanced_nutrition_data(product.nutriments),
                                           extract_product_quality_data(product))),
     upc_code |-> upc_code]

\* routes/food.py add_custom (POST): an absent or unparsable number is 0.
AddCustom(form, commit_ok) ==
    /\ Len(food) < MaxFoods
    /\ IF form.name = ""
       THEN /\ resp' = [op |-> "add_custom", ok |-> FALSE]
            /\ UNCHANGED food
       ELSE IF ~commit_ok
       THEN /\ resp' = [op |-> "add_custom", ok |-> FALSE]
            /\ UNCHANGED food
       ELSE /\ resp' = [op |-> "add_custom", ok |-> TRUE]
            /\ food' = Append(food,
                   [name |-> form.name,
                    nutrition_data |-> ColObject(
                        [k \in DOMAIN NutrimentKey |->
                            CASE k = "calories_per_100g" -> Num(form.calories)
                              [] k = "protein_per_100g"  -> Num(form.protein)
                              [] k = "carbs_per_100g"    -> Num(form.carbs)
                              [] k = "fat_per_100g"      -> Num(form.fat)
                              [] k = "fiber_per_100g"    -> Num(form.fiber)
                              [] k = "sugar_per_100g"    -> Num(form.sugar)
                              [] OTHER                   -> Num(form.sodium)]),
                    upc_code |-> ""])
    /\ UNCHANGED <<food_log, now, synthVars>>

\* nutrition_api.search_food_by_upc.  answer is what the external database
\* sends: [status, product] with status "error", "notfound" or "found".  A
\* second row with the same upc_code violates the UNIQUE constraint and the
\* commit raises.
SearchFoodByUpc(upc_code, answer, commit_ok) ==
    /\ Len(food) < MaxFoods
    /\ IF answer.status \in {"error", "notfound"}
       THEN /\ resp' = [op |-> "search_food_by_upc", found |-> FALSE]
            /\ UNCHANGED food
       ELSE IF ~commit_ok \/ HasUpc(food, upc_code)
       THEN /\ resp' = [op |-> "search_food_by_upc", found |-> FALSE]
            /\ UNCHANGED food
       ELSE /\ resp' = [op |-> "search_food_by_upc", found |-> TRUE]
            /\ food' = Append(food, FoodOfProduct(answer.product, upc_code))
    /\ UNCHANGED <<food_log, now, synthVars>>

\* The rows search_food_by_name adds for the products of the answer: a
\* product without a name or with a known code adds none.
RECURSIVE NewFoods(_, _)
NewFoods(table, products) ==
    IF products = <<>> THEN <<>>
    ELSE LET product == Head(products) IN
         IF product.product_name = "" \/ (product.code # "" /\ HasUpc(table, product.code))
         THEN NewFoods(table, Tail(products))
         ELSE <<FoodOfProduct(product, product.code)>> \o NewFoods(table, Tail(products))

\* Two of the rows carry the same upc_code.
SameUpcTwice(rows) ==
    \E i, j \in 1..Len(rows) : i < j /\ rows[i].upc_code # "" /\ rows[i].upc_code = rows[j].upc_code

\* nutrition_api.search_food_by_name.  answer is [status, products] with status
\* "error" or "found".
SearchFoodByName(answer, commit_ok) ==
    /\ Len(food) < MaxFoods
    /\ IF answer.status = "error"
       THEN /\ resp' = [op |-> "search_food_by_name", found |-> 0]
            /\ UNCHANGED food
       ELSE LET added == NewFoods(food, answer.products) IN
            IF ~commit_ok \/ SameUpcTwice(added)
            THEN /\ resp' = [op |-> "search_food_by_name", found |-> 0]
                 /\ UNCHANGED food
            ELSE /\ resp' = [op |-> "search_food_by_name",
                             found |-> Len(SelectSeq(answer.products,
                                                     LAMBDA x : x.product_name # ""))]
                 /\ food' = food \o added
    /\ UNCHANGED <<food_log, now, synthVars>>

\* routes/barcode.py scan (POST) once the photo is read: barcode is the text
\* that was extracted ("" for none), answer what get_food_by_barcode receives.
\* Only the nutrition part of the product is stored.
Scan(barcode, answer, commit_ok) ==
    /\ Len(food) < MaxFoods
    /\ IF barcode = ""
       THEN /\ resp' = [op |-> "scan", status |-> 400, upc |-> barcode, fetched |-> FALSE,
                        found |-> FALSE, success |-> FALSE, food_id |-> 0]
            /\ UNCHANGED food
       ELSE IF answer.status \in {"error", "notfound"}
       THEN /\ resp' = [op |-> "scan", status |-> 404, upc |-> barcode, fetched |-> TRUE,
                        found |-> FALSE, success |-> FALSE, food_id |-> 0]
            /\ UNCHANGED food
       ELSE IF HasUpc(food, barcode)
       THEN /\ resp' = [op |-> "scan", status |-> 200, upc |-> barcode, fetched |-> TRUE,
                        found |-> TRUE, success |-> TRUE, food_id |-> IdOfUpc(food, barcode)]
            /\ UNCHANGED food
       ELSE IF ~commit_ok
       THEN /\ resp' = [op |-> "scan", status |-> 500, upc |-> barcode, fetched |-> TRUE,
                        found |-> TRUE, success |-> FALSE, food_id |-> 0]
            /\ UNCHANGED food
       ELSE /\ resp' = [op |-> "scan", status |-> 200, upc |-> barcode, fetched |-> TRUE,
                        found |-> TRUE, success |-> TRUE, food_id |-> Len(food) + 1]
            /\ food' = Append(food,
                   [name |-> answer.product.product_name,
                    nutrition_data |->
                        ColObject(extract_enhanced_nutrition_data(answer.product.nutriments)),
                    upc_code |-> barcode])
    /\ UNCHANGED <<food_log, now, synthVars>>

\* The lookup of a barcode by routes/api.py search_upc (op "search_upc") and by
\* routes/food.py search with a upc and no q (op "search"): the local row if
\* there is one, else search_food_by_upc, which answers None when the product
\* is not found or anything raises.  fetched: the external database was
\* asked; found: it sent a product.
LookupUpc(op, upc, answer, commit_ok) ==
    /\ Len(food) < MaxFoods
    /\ upc # ""
    /\ IF HasUpc(food, upc)
       THEN /\ resp' = [op |-> op, status |-> 200, upc |-> upc, fetched |-> FALSE,
                        found |-> FALSE, success |-> TRUE, food_id |-> IdOfUpc(food, upc)]
            /\ UNCHANGED food
       ELSE IF answer.status \in {"error", "notfound"} \/ ~commit_ok
       THEN /\ resp' = [op |-> op, status |-> 200, upc |-> upc, fetched |-> TRUE,
                        found |-> answer.status = "found", success |-> FALSE,
                        food_id |-> 0]
            /\ UNCHANGED food
       ELSE /\ resp' = [op |-> op, status |-> 200, upc |-> upc, fetched |-> TRUE,
                        found |-> TRUE, success |-> TRUE, food_id |-> Len(food) + 1]
            /\ food' = Append(food, FoodOfProduct(answer.product, upc))
    /\ UNCHANGED <<food_log, now, synthVars>>

SearchUpc(upc, answer, commit_ok) == LookupUpc("search_upc", upc, answer, commit_ok)

\* search_upc served by two workers at once.  A request first reads the local
\* table, and if no row has the barcode it calls search_food_by_upc, which
\* fetches the product and commits a new row; the steps of the two requests
\* interleave between the read and the commit.
Waiting(upc) == [pc |-> "start", upc |-> upc, found |-> FALSE, success |-> FALSE, food_id |-> 0]

\* food = Food.query.filter_by(upc_code=upc).first() and the answer from it.
LookupCheck(r) ==
    /\ r \in DOMAIN requests
    /\ requests[r].pc = "start"
    /\ requests' = [requests EXCEPT ![r] =
          IF HasUpc(food, requests[r].upc)
          THEN [@ EXCEPT !.pc = "done", !.success = TRUE,
                         !.food_id = IdOfUpc(food, requests[r].upc)]
          ELSE [@ EXCEPT !.pc = "fetch"]]
    /\ UNCHANGED <<food, food_log, now, resp, pc, attempt, conns, pending, run, db>>

\* external_food = search_food_by_upc(upc) and the answer from it: the commit
\* of a row whose upc_code is already stored raises IntegrityError, which
\* search_food_by_upc turns into None.
LookupFetch(r, answer) ==
    /\ r \in DOMAIN requests
    /\ requests[r].pc = "fetch"
    /\ IF answer.status \in {"error", "notfound"}
       THEN /\ requests' = [requests EXCEPT ![r] = [@ EXCEPT !.pc = "done"]]
            /\ UNCHANGED food
       ELSE IF HasUpc(food, requests[r].upc)
       THEN /\ requests' = [requests EXCEPT ![r] = [@ EXCEPT !.pc = "done", !.found = TRUE]]
            /\ UNCHANGED food
       ELSE /\ requests' = [requests EXCEPT ![r] =
                               [@ EXCEPT !.pc = "done", !.found = TRUE, !.success = TRUE,
                                         !.food_id = Len(food) + 1]]
            /\ food' = Append(food, FoodOfProduct(answer.product, requests[r].upc))
    /\ UNCHANGED <<food_log, now, resp, pc, attempt, conns, pending, run, db>>

Search(upc, answer, commit_ok) == LookupUpc("search", upc, answer, commit_ok)

----------------------------------------------------------------------------
(* The aggregator's specification *)

Today0 == 739922        \* 2026-11-02

\* Nutrient profiles a food row can hold.
CaloriesSamples ==
    {Num(579), Null, Str("abc"), Str("120"), Bool(TRUE), List}

ProfileSamples ==
    {ColObject([k \in {"calories_per_100g", "protein_per_100g"} |->
                   IF k = "calories_per_100g" THEN c ELSE Num(4)]) : c \in CaloriesSamples}
    \cup {ColObject([k \in {"protein_per_100g", "is_vegan"} |->
                   IF k = "is_vegan" THEN Bool(TRUE) ELSE Num(21)]),
          ColNull, ColNonObject, ColMalformed}

\* Food 1 is a banana with a numeric profile, food 2 holds one of the samples.
Banana ==
    [name |-> "Banana",
     nutrition_data |-> ColObject([k \in {"calories_per_100g", "protein_per_100g",
                                         "carbs_per_100g", "fat_per_100g"} |->
         CASE k = "calories_per_100g" -> Num(89)
           [] k = "protein_per_100g"  -> Num(1)
           [] k = "carbs_per_100g"    -> Num(23)
           [] OTHER                   -> Num(0)])]

AggCatalogs ==
    {[i \in {1, 2} |-> IF i = 1 THEN Banana ELSE [name |-> "Sample", nutrition_data |-> p]] :
        p \in ProfileSamples}

\* Form posts to /log: [u, food_id, quantity, meal_type, commit_ok].
Form(u, f, q, m, c) == [u |-> u, food_id |-> f, quantity |-> q, meal_type |-> m, commit_ok |-> c]

LogRequests ==
    {Form(1, f, q, "lunch", TRUE) : f \in {1, 2}, q \in {50, 150}}
    \cup {Form(2, 1, 150, "dinner", TRUE), Form(2, 2, 50, "dinner", TRUE)}
    \cup {Form(1, 0, 50, "lunch", TRUE), Form(1, 3, 50, "lunch", TRUE),
          Form(1, 1, 0, "lunch", TRUE), Form(1, 1, -5, "lunch", TRUE),
          Form(1, 1, 50, "", TRUE), Form(1, 1, 50, "lunch", FALSE)}

DaysSamples == {-3000000, -1, 0, 1, 3, 3000000}

InitAgg ==
    /\ food \in AggCatalogs
    /\ food_log = <<>>
    /\ now = [day |-> Today0, min |-> 720]
    /\ resp = [op |-> "none"]
    /\ SynthIdle

NextAgg ==
    \/ \E r \in LogRequests : Log(r.u, r.food_id, r.quantity, r.meal_type, r.commit_ok)
    \/ Tick(Today0)
    \/ \E i \in 1..MaxLogs : GetCalories(i)
    \/ \E u \in Users, days \in DaysSamples : NutritionSummary(u, days)

SpecAgg == InitAgg /\ [][NextAgg]_vars

----------------------------------------------------------------------------
(* The specification of the nutrient views *)

\* A product as the lookup stores it: nutrient figures next to quality data.
Looked_up ==
    ColObject([k \in {"calories_per_100g", "protein_per_100g", "fiber_per_100g",
                      "sodium_per_100g", "is_vegan", "nutri_score_grade", "allergens"} |->
        CASE k = "calories_per_100g" -> Num(250)
          [] k = "protein_per_100g"  -> Num(21)
          [] k = "fiber_per_100g"    -> Null
          [] k = "sodium_per_100g"   -> Str("120")
          [] k = "is_vegan"          -> Bool(TRUE)
          [] k = "nutri_score_grade" -> Str("abc")
          [] OTHER                   -> List])

\* A profile whose keys are the names of the dashboard's buckets.
BucketNamed ==
    ColObject([k \in {"calories_per_100g", "calories", "protein"} |->
        CASE k = "calories_per_100g" -> Num(10)
          [] k = "calories"          -> Num(10)
          [] OTHER                   -> Num(7)])

ViewCatalogs ==
    {[i \in {1, 2} |-> IF i = 1 THEN Banana ELSE [name |-> "Sample", nutrition_data |-> p]] :
        p \in {Looked_up, BucketNamed, ColNull, ColEmpty, ColNonObject, ColMalformed}}

InitViews ==
    /\ food \in ViewCatalogs
    /\ food_log = <<>>
    /\ now = [day |-> Today0, min |-> 720]
    /\ resp = [op |-> "none"]
    /\ SynthIdle

NextViews ==
    \/ \E r \in LogRequests : Log(r.u, r.food_id, r.quantity, r.meal_type, r.commit_ok)
    \/ Tick(Today0)
    \/ \E i \in 1..MaxLogs : GetNutrients(i)
    \/ \E u \in Users, days \in {0, 1, 3} : Nutrition(u, days)
    \/ \E u \in Users : Analytics(u)

SpecViews == InitViews /\ [][NextViews]_vars

----------------------------------------------------------------------------
(* The specification of the operations that create food rows *)

\* Products of the external database: [product_name, code, nutriments,
\* nutriscore_score, nova_group, vegan].
OatDrink ==
    [product_name |-> "Oat Drink", code |-> "111",
     nutriments |-> [k \in {"energy-kcal_100g", "proteins_100g"} |->
                        IF k = "energy-kcal_100g" THEN Num(46) ELSE Num(1)],
     nutriscore_score |-> Num(-3), nova_group |-> Num(4), vegan |-> TRUE]

Odd ==
    [product_name |-> "Odd", code |-> "222",
     nutriments |-> [k \in {"energy-kcal_100g", "proteins_100g", "sugars_100g"} |->
                        CASE k = "energy-kcal_100g" -> Num(-5)
                          [] k = "proteins_100g"    -> Str("abc")
                          [] OTHER                  -> Null],
     nutriscore_score |-> Null, nova_group |-> Str("120"), vegan |-> FALSE]

Nameless ==
    [product_name |-> "", code |-> "333",
     nutriments |-> [k \in {"energy-kcal_100g"} |-> Num(10)],
     nutriscore_score |-> Null, nova_group |-> Null, vegan |-> FALSE]

UpcAnswers ==
    {[status |-> "error", product |-> Nameless], [status |-> "notfound", product |-> Nameless],
     [status |-> "found", product |-> OatDrink], [status |-> "found", product |-> Odd]}

NameAnswers ==
    {[status |-> "error", products |-> <<>>],
     [status |-> "found", products |-> <<>>],
     [status |-> "found", products |-> <<OatDrink, Nameless>>],
     [status |-> "found", products |-> <<Odd, Odd>>],
     [status |-> "found", products |-> <<Odd>>]}

\* Form posts to /food/add-custom.
CustomForm(name, calories, protein) ==
    [name |-> name, calories |-> calories, protein |-> protein, carbs |-> 0, fat |-> 0,
     fiber |-> 0, sugar |-> 0, sodium |-> 0]

CustomForms ==
    {CustomForm("Soup", 52, 3), CustomForm("Soup", 0, 0), CustomForm("Ice", -20, 0),
     CustomForm("", 52, 3)}

InitFoods ==
    /\ food = <<>>
    /\ food_log = <<>>
    /\ now = [day |-> Today0, min |-> 720]
    /\ resp = [op |-> "none"]
    /\ SynthIdle

NextFoods ==
    \/ \E form \in CustomForms, commit_ok \in BOOLEAN : AddCustom(form, commit_ok)
    \/ \E upc \in {"111", "222"}, answer \in UpcAnswers, commit_ok \in BOOLEAN :
          SearchFoodByUpc(upc, answer, commit_ok)
    \/ \E answer \in NameAnswers, commit_ok \in BOOLEAN : SearchFoodByName(answer, commit_ok)
    \/ \E barcode \in {"", "111", "222"}, answer \in UpcAnswers, commit_ok \in BOOLEAN :
          Scan(barcode, answer, commit_ok)
    \/ \E upc \in {"111", "222"}, answer \in UpcAnswers, commit_ok \in BOOLEAN :
          SearchUpc(upc, answer, commit_ok)
    \/ \E upc \in {"111", "222"}, answer \in UpcAnswers, commit_ok \in BOOLEAN :
          Search(upc, answer, commit_ok)

SpecFoods == InitFoods /\ [][NextFoods]_vars

\* Two concurrent requests to search_upc on an empty food table.
RequestIds == {1, 2}

InitRace ==
    /\ food = <<>>
    /\ food_log = <<>>
    /\ now = [day |-> Today0, min |-> 720]
    /\ resp = [op |-> "none"]
    /\ pc = "idle" /\ attempt = 0 /\ conns = {} /\ pending = <<>>
    /\ run = Idle(0, 0) /\ db = SqliteFile
    /\ requests \in [RequestIds -> {Waiting(upc) : upc \in {"111", "222"}}]

NextRace ==
    \/ \E r \in RequestIds : LookupCheck(r)
    \/ \E r \in RequestIds, answer \in UpcAnswers : LookupFetch(r, answer)

SpecRace == InitRace /\ [][NextRace]_vars

----------------------------------------------------------------------------
(* Properties of the aggregator *)

\* The calories-per-100g figure the contract assigns to a stored profile value.
StoredCaloriesPer100g(d) ==
    IF "calories_per_100g" \notin DOMAIN d THEN 0
    ELSE LET v == d["calories_per_100g"] IN
         CASE v.kind = "num"  -> v.n
           [] v.kind = "bool" -> v.n
           [] v.kind = "str" /\ v.s = "120"   -> 120
           [] v.kind = "str" /\ v.s = " 600 " -> 600
           [] OTHER -> 0

ProfileIsMapping(f) == f.nutrition_data.kind \in {"null", "empty", "object"}

DatesWithEntries(u, today, days) ==
    {food_log[i].logged_at.day : i \in
        {j \in 1..Len(food_log) : /\ food_log[j].user_id = u
                                  /\ food_log[j].logged_at.day >= today - (days - 1)
                                  /\ food_log[j].logged_at.day <= today}}

RECURSIVE SumDayCalories(_, _)
SumDayCalories(daily_data, S) ==
    IF S = {} THEN 0
    ELSE LET d == CHOOSE x \in S : TRUE
         IN daily_data[d].calories + SumDayCalories(daily_data, S \ {d})

IsSummary == resp.op = "nutrition_summary"

\* C2: the per-day map of a summary has a key for exactly the dates with an
\* in-range entry of the user, and its calories add up to the reported total.
C2_PerDayMap ==
    (IsSummary /\ resp.success)
    => /\ DOMAIN resp.daily_data = DatesWithEntries(resp.user, resp.today, resp.days)
       /\ SumDayCalories(resp.daily_data, DOMAIN resp.daily_data) = resp.total_calories

\* A summary over three days of which one has no entry and two have.
C2_Witness ==
    /\ IsSummary /\ resp.success /\ resp.days = 3
    /\ Cardinality(DOMAIN resp.daily_data) = 2
    /\ \A d \in DOMAIN resp.daily_data : resp.daily_data[d].calories > 0

\* C3: a summary over an empty range (days <= 0, or no entry of the user in the
\* range) succeeds with total 0, average 0 and an empty per-day map.
C3_EmptyRange ==
    (IsSummary /\ (resp.days <= 0 \/ DatesWithEntries(resp.user, resp.today, resp.days) = {}))
    => /\ resp.success
       /\ resp.total_calories = 0
       /\ resp.avg_daily_calories[1] = 0
       /\ DOMAIN resp.daily_data = {}

\* C4: the average of a summary over days >= 1 is total / days, whatever the
\* number of dates that have entries.
C4_AverageOverRange ==
    (IsSummary /\ resp.success /\ resp.days >= 1)
    => /\ resp.avg_daily_calories[2] # 0
       /\ resp.avg_daily_calories[1] * resp.days
            = resp.total_calories * resp.avg_daily_calories[2]

\* A summary over three days with entries on fewer dates and a non-zero total.
C4_Witness ==
    /\ IsSummary /\ resp.success /\ resp.days = 3
    /\ Cardinality(DOMAIN resp.daily_data) \in {1, 2}
    /\ resp.total_calories > 0

----------------------------------------------------------------------------
(* Demo data synthesizer: services/simple_demo_generator.py *)

MealTypes == {"breakfast", "lunch", "dinner", "snack"}

MEAL_PATTERNS ==
    [m \in MealTypes |->
       CASE m = "breakfast" ->
              [foods |-> <<"Oatmeal", "Greek Yogurt", "Banana", "Eggs", "Whole Wheat Bread",
                           "Avocado", "Almonds", "Organic Quinoa">>,
               quantities |-> <<80, 150>>]
         [] m = "lunch" ->
              [foods |-> <<"Chicken Breast", "Brown Rice", "Broccoli", "Salmon Fillet",
                           "Sweet Potato", "Turkey Sandwich", "Caesar Salad", "Quinoa",
                           "Spinach">>,
               quantities |-> <<100, 200>>]
         [] m = "dinner" ->
              [foods |-> <<"Salmon Fillet", "Chicken Breast", "Brown Rice", "Sweet Potato",
                           "Broccoli", "Spinach", "Quinoa", "Pizza Slice",
                           "Burger with Fries">>,
               quantities |-> <<120, 250>>]
         [] OTHER ->
              [foods |-> <<"Almonds", "Banana", "Greek Yogurt", "Red Seedless Grapes",
                           "Dark Chocolate 85% Cacao", "Avocado">>,
               quantities |-> <<30, 100>>]]

Seasons == {"winter", "spring", "summer", "autumn"}

SEASONAL_FOODS ==
    [se \in Seasons |->
       CASE se = "winter" -> <<"Campbell's Tomato Soup", "Oatmeal", "Sweet Potato">>
         [] se = "spring" -> <<"Spinach", "Broccoli", "Salmon Fillet">>
         [] se = "summer" -> <<"Red Seedless Grapes", "Banana", "Caesar Salad">>
         [] OTHER         -> <<"Sweet Potato", "Quinoa", "Dark Chocolate 85% Cacao">>]

\* datetime.date: the month of an ordinal (datetime._ord2ymd).
DAYS_BEFORE_MONTH == <<0, 31, 59, 90, 120, 151, 181, 212, 243, 273, 304, 334>>

MonthOf(ordinal) ==
    LET n0 == ordinal - 1
        n100 == (n0 % 146097) \div 36524
        r100 == (n0 % 146097) % 36524
        n4 == r100 \div 1461
        r4 == r100 % 1461
        n1 == r4 \div 365
        n == r4 % 365
        leapyear == n1 = 3 /\ (n4 # 24 \/ n100 = 3)
        month == (n + 50) \div 32
        preceding == DAYS_BEFORE_MONTH[month] + (IF month > 2 /\ leapyear THEN 1 ELSE 0)
    IN  IF n1 = 4 \/ n100 = 4 THEN 12
        ELSE IF preceding > n THEN month - 1 ELSE month

get_season(date) ==
    LET month == MonthOf(date.day) IN
    IF month \in {12, 1, 2} THEN "winter"
    ELSE IF month \in {3, 4, 5} THEN "spring"
    ELSE IF month \in {6, 7, 8} THEN "summer"
    ELSE "autumn"

\* str.lower and the substring test  a in b
UpperCase == "ABCDEFGHIJKLMNOPQRSTUVWXYZ"
LowerCase == "abcdefghijklmnopqrstuvwxyz"

LowerChar(c) ==
    IF \E i \in 1..26 : SubSeq(UpperCase, i, i) = c
    THEN LET i == CHOOSE j \in 1..26 : SubSeq(UpperCase, j, j) = c IN SubSeq(LowerCase, i, i)
    ELSE c

RECURSIVE Lower(_)
Lower(str) ==
    IF Len(str) = 0 THEN ""
    ELSE LowerChar(SubSeq(str, 1, 1)) \o Lower(SubSeq(str, 2, Len(str)))

IsSubstring(a, b) ==
    \E i \in 1..(Len(b) - Len(a) + 1) : SubSeq(b, i, i + Len(a) - 1) = a

\* preferred_food.lower() for every name of MEAL_PATTERNS and SEASONAL_FOODS.
PoolNames ==
    UNION ({{MEAL_PATTERNS[m].foods[k] : k \in 1..Len(MEAL_PATTERNS[m].foods)} : m \in MealTypes}
           \cup {{SEASONAL_FOODS[se][k] : k \in 1..Len(SEASONAL_FOODS[se])} : se \in Seasons})
LoweredPoolNames == [name \in PoolNames |-> Lower(name)]

\* The rows of available_foods whose name contains a name of food_pool.
MatchingFoods(available_foods, food_pool) ==
    SelectSeq(available_foods, LAMBDA id :
        \E food_name \in {Lower(food[id].name)} :
            \E k \in 1..Len(food_pool) :
                IsSubstring(LoweredPoolNames[food_pool[k]], food_name))

\* food_pool: the meal's names, extended by the season's names when the roll
\* random.random() < 0.3 succeeds and the season has names.
FoodPool(meal_type, season, extended) ==
    LET meal_foods == MEAL_PATTERNS[meal_type].foods
        seasonal_foods == SEASONAL_FOODS[season]
    IN  IF extended /\ Len(seasonal_foods) > 0
        THEN meal_foods \o seasonal_foods ELSE meal_foods

\* A choice among all available foods, whatever the pool.
ChoiceFrom_anyFood(available_foods, food_pool) == available_foods

\* The list random.choice draws from: the matching foods, or all of them when
\* none matches.
ChoiceFrom(available_foods, food_pool) ==
    LET matching_foods == MatchingFoods(available_foods, food_pool) IN
    IF Len(matching_foods) = 0 THEN available_foods ELSE matching_foods

\* select_realistic_food_for_meal: the ids random.choice can return; the
\* seasonal names are added to the pool or not (random.random() < 0.3).
select_realistic_food_for_meal(meal_type, available_foods, season) ==
    UNION {LET choices == ChoiceFrom(available_foods, FoodPool(meal_type, season, extended))
           IN  {choices[i] : i \in 1..Len(choices)}
           : extended \in BOOLEAN}

\* One call of select_realistic_food_for_meal on a non-empty list: extended is
\* the outcome of random.random() < 0.3, choice the index random.choice picks.
SelectFood(meal_type, available_foods, season, extended, choice) ==
    /\ pc = "idle"
    /\ Len(available_foods) > 0
    /\ LET choices == ChoiceFrom(available_foods, FoodPool(meal_type, season, extended)) IN
       /\ choice \in 1..Len(choices)
       /\ resp' = [op |-> "select", meal_type |-> meal_type, season |-> season,
                   available_foods |-> available_foods, extended |-> extended,
                   food_id |-> choices[choice]]
    /\ UNCHANGED <<food, food_log, now>>
    /\ UNCHANGED synthVars

\* The quantity heuristic with a default range that starts at 0.
get_realistic_quantity_for_meal_fromZero(meal_type, nutrition_json) ==
    LET base_range == MEAL_PATTERNS[meal_type].quantities
        loaded == CASE nutrition_json.kind \in {"null", "empty"} -> "dict"
                    [] nutrition_json.kind = "object"            -> "dict"
                    [] nutrition_json.kind = "nonobject"         -> "other"
                    [] OTHER                                     -> "JSONDecodeError"
        nutrition == IF nutrition_json.kind = "object" THEN nutrition_json.obj ELSE NoKeys
        v == DictGet(nutrition, "calories_per_100g", Num(200))
        calories_per_100g ==
            IF loaded = "JSONDecodeError" THEN 200
            ELSE IF v.kind = "null" THEN 200
            ELSE IF PyFloat(v).exc = "" THEN PyFloat(v).n
            ELSE 200
    IN  IF loaded = "other" THEN [exc |-> "AttributeError", lo |-> 0, hi |-> 0]
        ELSE IF calories_per_100g > 500 THEN [exc |-> "", lo |-> 15, hi |-> 50]
        ELSE IF calories_per_100g > 300 THEN [exc |-> "", lo |-> 50, hi |-> 120]
        ELSE [exc |-> "", lo |-> 0, hi |-> base_range[2]]

\* The quantity heuristic with  >= 500  for the calorie-dense range.
get_realistic_quantity_for_meal_atLeast500(meal_type, nutrition_json) ==
    LET base_range == MEAL_PATTERNS[meal_type].quantities
        loaded == CASE nutrition_json.kind \in {"null", "empty"} -> "dict"
                    [] nutrition_json.kind = "object"            -> "dict"
                    [] nutrition_json.kind = "nonobject"         -> "other"
                    [] OTHER                                     -> "JSONDecodeError"
        nutrition == IF nutrition_json.kind = "object" THEN nutrition_json.obj ELSE NoKeys
        v == DictGet(nutrition, "calories_per_100g", Num(200))
        calories_per_100g ==
            IF loaded = "JSONDecodeError" THEN 200
            ELSE IF v.kind = "null" THEN 200
            ELSE IF PyFloat(v).exc = "" THEN PyFloat(v).n
            ELSE 200
    IN  IF loaded = "other" THEN [exc |-> "AttributeError", lo |-> 0, hi |-> 0]
        ELSE IF calories_per_100g >= 500 THEN [exc |-> "", lo |-> 15, hi |-> 50]
        ELSE IF calories_per_100g > 300 THEN [exc |-> "", lo |-> 50, hi |-> 120]
        ELSE [exc |-> "", lo |-> base_range[1], hi |-> base_range[2]]

\* get_realistic_quantity_for_meal: the bounds handed to random.randint, or the
\* exception that leaves the function.
get_realistic_quantity_for_meal(meal_type, nutrition_json) ==
    LET base_range == MEAL_PATTERNS[meal_type].quantities
        loaded == CASE nutrition_json.kind \in {"null", "empty"} -> "dict"
                    [] nutrition_json.kind = "object"            -> "dict"
                    [] nutrition_json.kind = "nonobject"         -> "other"
                    [] OTHER                                     -> "JSONDecodeError"
        nutrition == IF nutrition_json.kind = "object" THEN nutrition_json.obj ELSE NoKeys
        v == DictGet(nutrition, "calories_per_100g", Num(200))
        calories_per_100g ==
            IF loaded = "JSONDecodeError" THEN 200
            ELSE IF v.kind = "null" THEN 200
            ELSE IF PyFloat(v).exc = "" THEN PyFloat(v).n
            ELSE 200
    IN  IF loaded = "other" THEN [exc |-> "AttributeError", lo |-> 0, hi |-> 0]
        ELSE IF calories_per_100g > 500 THEN [exc |-> "", lo |-> 15, hi |-> 50]
        ELSE IF calories_per_100g > 300 THEN [exc |-> "", lo |-> 50, hi |-> 120]
        ELSE [exc |-> "", lo |-> base_range[1], hi |-> base_range[2]]

----------------------------------------------------------------------------
(* _create_demo_data_internal, step by step *)

max_retries == 3
DAYS_PER_MONTH == 30

FailureResult(e) == [op |-> "synth", raised |-> FALSE, success |-> FALSE, error |-> e]

\* An exception that leaves _create_demo_data_internal.
Propagated(e) == [op |-> "synth", raised |-> TRUE, success |-> FALSE, error |-> e]

\* A rollback that keeps the rows of the open transaction.
AfterRollback_keepsRows(table, uncommitted) == table \o uncommitted

\* conn.rollback(): the table without the rows of the open transaction.
AfterRollback(table, uncommitted) == table

\* A commit that skips the rows the table already holds.
AfterCommit_skipsDuplicates(table, uncommitted) ==
    table \o SelectSeq(uncommitted, LAMBDA r : \A i \in 1..Len(table) : table[i] # r)

\* conn.commit(): the rows of the open transaction become part of the table.
AfterCommit(table, uncommitted) == table \o uncommitted

\* The call create_demo_data_with_path(user_id, db_path, months); there is no
\* result until the call returns.
Start ==
    /\ pc = "idle"
    /\ pc' = "connect"
    /\ attempt' = 0
    /\ run' = [run EXCEPT !.before = food_log, !.generated = <<>>]
    /\ resp' = [op |-> "none"]
    /\ UNCHANGED <<food, food_log, now, conns, pending, db, requests>>

\* A retry loop that gives up after the second failed attempt.
Connect_givesUpEarly(outcome) ==
    /\ pc = "connect"
    /\ outcome \in {"ok", "connect_locked", "pragma_locked"}
    /\ conns' = IF outcome = "connect_locked" THEN conns ELSE conns \cup {attempt + 1}
    /\ IF outcome = "ok" /\ db.file = "sqlite"
       THEN /\ pc' = "check"
            /\ run' = [run EXCEPT !.conn = attempt + 1]
            /\ UNCHANGED <<attempt, resp>>
       ELSE IF outcome = "ok"
       THEN \* the file is not a database: PRAGMA raises sqlite3.DatabaseError
            /\ pc' = "done"
            /\ resp' = Propagated("DatabaseError")
            /\ UNCHANGED <<attempt, run>>
       ELSE IF attempt = max_retries - 2
       THEN /\ pc' = "done"
            /\ resp' = FailureResult("Database connection failed after 3 attempts")
            /\ UNCHANGED <<attempt, run>>
       ELSE /\ attempt' = attempt + 1
            /\ UNCHANGED <<pc, resp, run>>
    /\ UNCHANGED <<food, food_log, now, pending, db, requests>>

\* One pass of the retry loop: sqlite3.connect and PRAGMA journal_mode=WAL.
\* outcome: "ok", or the statement that raises OperationalError (database is locked).
\* No statement closes a connection whose PRAGMA raised: its handle stays in
\* conns.  An interpreter that finalizes the dropped object at once leaves the
\* state that "connect_locked" leaves.
Connect(outcome) ==
    /\ pc = "connect"
    /\ outcome \in {"ok", "connect_locked", "pragma_locked"}
    /\ conns' = IF outcome = "connect_locked" THEN conns ELSE conns \cup {attempt + 1}
    /\ IF outcome = "ok" /\ db.file = "sqlite"
       THEN /\ pc' = "check"
            /\ run' = [run EXCEPT !.conn = attempt + 1]
            /\ UNCHANGED <<attempt, resp>>
       ELSE IF outcome = "ok"
       THEN \* the file is not a database: PRAGMA raises sqlite3.DatabaseError
            /\ pc' = "done"
            /\ resp' = Propagated("DatabaseError")
            /\ UNCHANGED <<attempt, run>>
       ELSE IF attempt = max_retries - 1
       THEN /\ pc' = "done"
            /\ resp' = FailureResult("Database connection failed after 3 attempts")
            /\ UNCHANGED <<attempt, run>>
       ELSE /\ attempt' = attempt + 1
            /\ UNCHANGED <<pc, resp, run>>
    /\ UNCHANGED <<food, food_log, now, pending, db, requests>>

\* return {...} inside the try: the finally clause closes the connection.
ReturnFailure(e) ==
    /\ pc' = "done"
    /\ resp' = FailureResult(e)
    /\ conns' = conns \ {run.conn}
    /\ food_log' = food_log
    /\ pending' = <<>>

\* except Exception: conn.rollback(), the failure result, then finally.
Except(e, uncommitted) ==
    /\ pc' = "done"
    /\ resp' = FailureResult(e)
    /\ conns' = conns \ {run.conn}
    /\ food_log' = AfterRollback(food_log, uncommitted)
    /\ pending' = <<>>

\* The catalog query without its WHERE clause.
AvailableFoods_allRows == [i \in 1..Len(food) |-> i]

\* SELECT id, name, nutrition_data FROM food WHERE nutrition_data IS NOT NULL
AvailableFoods ==
    SelectSeq([i \in 1..Len(food) |-> i], LAMBDA id : food[id].nutrition_data.kind # "null")

\* The table checks, the catalog query, the user query and the date range.
Check ==
    /\ pc = "check"
    /\ LET start == DateMinusDays(now.day, run.months * DAYS_PER_MONTH) IN
       IF "food" \notin db.tables
       THEN ReturnFailure("Food table not found") /\ UNCHANGED run
       ELSE IF Len(AvailableFoods) = 0
       THEN ReturnFailure("No foods with nutrition data available") /\ UNCHANGED run
       ELSE IF "user" \notin db.tables
       THEN Except("no such table: user", pending) /\ UNCHANGED run
       ELSE IF start.exc # ""
       THEN Except(start.exc, pending) /\ UNCHANGED run
       ELSE /\ pc' = "loop"
            /\ run' = [run EXCEPT !.available_foods = AvailableFoods,
                                  !.end_date = now,
                                  !.start_date = [now EXCEPT !.day = start.day],
                                  !.current_date = [now EXCEPT !.day = start.day],
                                  !.logs_created = 0, !.total_calories = 0,
                                  !.meal_counts = <<>>, !.dates_with_logs = {}]
            /\ UNCHANGED <<food_log, resp, conns, pending>>
    /\ UNCHANGED <<food, now, attempt, db, requests>>

\* Outcomes of the random draws that the model follows.
RandIntSamples(lo, hi) == {lo, hi}
MealTimeSamples(lo, hi) == {<<lo, 0>>, <<hi, 59>>}
SnackTimeSamples == {<<10, 0>>, <<15, 59>>, <<20, 59>>}

\* The days on which the roll "random.random() < 0.85" is followed to succeed.
LogDaySamples == {run.start_date.day, run.end_date.day}

\* Meal times drawn from the whole day.
MealTimes_anyHour(meal_type) == {<<0, 0>>, <<23, 59>>}

\* The (hour, minute) pairs followed for a meal: randint(6, 9), randint(11, 14),
\* randint(17, 21) or random.choice([10, 15, 20]), and randint(0, 59).
MealTimes(meal_type) ==
    CASE meal_type = "breakfast" -> MealTimeSamples(6, 9)
      [] meal_type = "lunch"     -> MealTimeSamples(11, 14)
      [] meal_type = "dinner"    -> MealTimeSamples(17, 21)
      [] OTHER                   -> SnackTimeSamples

\* current_date.replace(hour=h, minute=m, second=0, microsecond=0)
Replace(date, h, m) == [day |-> date.day, min |-> h * 60 + m, sec |-> 0]

\* The tuples one meal slot can append to daily_logs; exc is the exception
\* raised while the tuple is built.
MealEntries(meal_type) ==
    UNION {
        LET quantity == get_realistic_quantity_for_meal(meal_type, food[f].nutrition_data) IN
        IF quantity.exc # ""
        THEN {[meal_type |-> meal_type, food_id |-> f, quantity |-> 0,
               logged_at |-> run.current_date, exc |-> quantity.exc]}
        ELSE {[meal_type |-> meal_type, food_id |-> f, quantity |-> q,
               logged_at |-> Replace(run.current_date, t[1], t[2]), exc |-> ""] :
                  q \in RandIntSamples(quantity.lo, quantity.hi), t \in MealTimes(meal_type)}
        : f \in select_realistic_food_for_meal(meal_type, run.available_foods,
                                               get_season(run.current_date))}

\* daily_logs after one more slot: the roll fails, or succeeds and appends a
\* tuple; a tuple with exc ends the day, and at most budget tuples are followed.
Extend(S, entries, budget) ==
    UNION {IF Len(x) >= budget \/ (Len(x) > 0 /\ x[Len(x)].exc # "")
           THEN {x}
           ELSE {x} \cup {Append(x, e) : e \in entries}
           : x \in S}

\* A day with a third snack slot.
DailyLogs_threeSnacks(budget) ==
    LET snack == MealEntries("snack")
        s1 == Extend({<<>>}, MealEntries("breakfast"), budget)
        s2 == Extend(s1, MealEntries("lunch"), budget)
        s3 == Extend(s2, MealEntries("dinner"), budget)
        s4 == Extend(s3, snack, budget)
        s5 == Extend(s4, snack, budget)
    IN  Extend(s5, snack, budget)

\* The values daily_logs can take: breakfast, lunch, dinner, then the
\* iterations of  for i in range(num_snacks)  with num_snacks in {0, 1, 2}.
DailyLogs(budget) ==
    LET snack == MealEntries("snack")
        s1 == Extend({<<>>}, MealEntries("breakfast"), budget)
        s2 == Extend(s1, MealEntries("lunch"), budget)
        s3 == Extend(s2, MealEntries("dinner"), budget)
        s4 == Extend(s3, snack, budget)
    IN  Extend(s4, snack, budget)

\* Statistics that add the figure per 100 g whatever the quantity.
StatCalories_unscaled(food_id, quantity) ==
    LET col == food[food_id].nutrition_data
        v == DictGet(col.obj, "calories_per_100g", Num(0))
    IN  IF col.kind = "object" /\ PyFloat(v).exc = "" THEN PyFloat(v).n * 100 ELSE 0

\* The statistics block after an INSERT: the row's calories, 0 when anything raises.
StatCalories(food_id, quantity) ==
    LET col == food[food_id].nutrition_data
        v == DictGet(col.obj, "calories_per_100g", Num(0))
    IN  IF col.kind = "object" /\ PyFloat(v).exc = "" THEN PyFloat(v).n * quantity ELSE 0

\* A row inserted for the user with the next id.
Row_otherUser(e) ==
    [user_id |-> run.user_id + 1, food_id |-> e.food_id, quantity |-> e.quantity,
     meal_type |-> e.meal_type, logged_at |-> e.logged_at,
     notes |-> [text |-> "Demo data for", day |-> run.current_date.day]]

\* The values of one INSERT INTO food_log.
Row(e) ==
    [user_id |-> run.user_id, food_id |-> e.food_id, quantity |-> e.quantity,
     meal_type |-> e.meal_type, logged_at |-> e.logged_at,
     notes |-> [text |-> "Demo data for", day |-> run.current_date.day]]

Rows(logs) == [i \in 1..Len(logs) |-> Row(logs[i])]

Bump(meal_counts, meal_type) ==
    [m \in DOMAIN meal_counts \cup {meal_type} |->
        (IF m \in DOMAIN meal_counts THEN meal_counts[m] ELSE 0)
        + (IF m = meal_type THEN 1 ELSE 0)]

RECURSIVE CountMeals(_, _)
CountMeals(meal_counts, logs) ==
    IF logs = <<>> THEN meal_counts
    ELSE CountMeals(Bump(meal_counts, Head(logs).meal_type), Tail(logs))

\* A step of two days.
NextDay_twoDays(date) == [date EXCEPT !.day = @ + 2]

\* current_date += timedelta(days=1)
NextDay(date) == [date EXCEPT !.day = @ + 1]

\* One iteration of  while current_date <= end_date:  daily_logs is built,
\* then inserted; the INSERT number k + 1 raises when k < Len(daily_logs).
DayBody(daily_logs, k) ==
    /\ k \in 0..Len(daily_logs)
    /\ "food_log" \notin db.tables /\ Len(daily_logs) > 0 => k = 0
    /\ IF \E i \in 1..Len(daily_logs) : daily_logs[i].exc # ""
       THEN /\ k = 0
            /\ Except(daily_logs[Len(daily_logs)].exc, pending)
            /\ run' = [run EXCEPT !.visited = Append(@, run.current_date.day)]
       ELSE IF k < Len(daily_logs)
       THEN /\ Except("OperationalError", pending \o Rows(SubSeq(daily_logs, 1, k)))
            /\ run' = [run EXCEPT !.generated = @ \o Rows(SubSeq(daily_logs, 1, k)),
                                  !.visited = Append(@, run.current_date.day)]
       ELSE /\ pending' = pending \o Rows(daily_logs)
            /\ run' = [run EXCEPT
                 !.generated = @ \o Rows(daily_logs),
                 !.logs_created = @ + Len(daily_logs),
                 !.meal_counts = CountMeals(@, daily_logs),
                 !.total_calories = @ + SumSeq([i \in 1..Len(daily_logs) |->
                       StatCalories(daily_logs[i].food_id, daily_logs[i].quantity)]),
                 !.dates_with_logs = IF Len(daily_logs) > 0
                                     THEN @ \cup {run.current_date.day} ELSE @,
                 !.visited = Append(@, run.current_date.day),
                 !.current_date = NextDay(@)]
            /\ UNCHANGED <<food_log, resp, conns, pc>>
    /\ UNCHANGED <<food, now, attempt, db, requests>>

Day ==
    /\ pc = "loop"
    /\ run.current_date.day <= run.end_date.day
    /\ \E daily_logs \in (IF run.current_date.day \in LogDaySamples
                           THEN DailyLogs(run.budget - Len(food_log) - Len(pending))
                           ELSE {<<>>}),
          k \in 0..run.budget : DayBody(daily_logs, k)

\* round(a / b) for b > 0: to the nearest integer, a tie to the even one.
PyRound(a, b) ==
    LET q == a \div b
        r == a % b
    IN  IF 2 * r < b THEN q
        ELSE IF 2 * r > b THEN q + 1
        ELSE IF q % 2 = 0 THEN q ELSE q + 1

\* After the loop: conn.commit() and the success result, or the commit raises.
Commit(ok) ==
    /\ pc = "loop"
    /\ run.current_date.day > run.end_date.day
    /\ IF ok
       THEN /\ food_log' = AfterCommit(food_log, pending)
            /\ pending' = <<>>
            /\ pc' = "done"
            /\ conns' = conns \ {run.conn}
            /\ resp' = [op |-> "synth", raised |-> FALSE, success |-> TRUE,
                        logs_created |-> run.logs_created,
                        unique_dates |-> Cardinality(run.dates_with_logs),
                        avg_calories_per_day |->
                            IF Cardinality(run.dates_with_logs) > 0
                            THEN PyRound(run.total_calories,
                                         100 * Cardinality(run.dates_with_logs))
                            ELSE 0,
                        meal_breakdown |-> run.meal_counts,
                        months |-> run.months]
       ELSE Except("OperationalError", pending)
    /\ UNCHANGED <<food, now, attempt, run, db, requests>>

\* create_demo_data_with_path is called once more for the same user after the
\* first call has returned a success; earlier keeps the first call's outcome.
StartAgain ==
    /\ pc = "done" /\ resp.op = "synth" /\ resp.success
    /\ run.earlier = <<>>
    /\ pc' = "connect"
    /\ attempt' = 0
    /\ run' = [Idle(run.user_id, run.months) EXCEPT
                 !.before = food_log,
                 !.earlier = <<[before |-> run.before, generated |-> run.generated,
                                result |-> resp]>>]
    /\ UNCHANGED <<food, food_log, now, resp, conns, pending, db, requests>>

----------------------------------------------------------------------------
(* The synthesizer's specification *)

CaloriesOnly(c) == ColObject([k \in {"calories_per_100g"} |-> c])
NoCaloriesKey == ColObject([k \in {"protein_per_100g"} |-> Num(21)])

Quinoa == [name |-> "Quinoa Salad", nutrition_data |-> CaloriesOnly(Num(120))]
Almonds(p) == [name |-> "Roasted ALMONDS", nutrition_data |-> p]
Tofu(p) == [name |-> "Tofu", nutrition_data |-> p]
Seitan(p) == [name |-> "Seitan", nutrition_data |-> p]

SynthProfiles ==
    {CaloriesOnly(c) : c \in {Num(579), Num(500), Num(350), Num(300), Null,
                              Str("abc"), Str(" 600 "), List}}
    \cup {NoCaloriesKey, ColEmpty, ColMalformed, ColNonObject, ColNull}

SynthCatalogs ==
    {<<Quinoa, Almonds(p)>> : p \in SynthProfiles}
    \cup {<<>>,
          <<Tofu(ColNull), Seitan(ColNull)>>,
          <<Tofu(CaloriesOnly(Num(76))), Seitan(CaloriesOnly(Num(370)))>>}

\* The seconds of datetime.now() when the synthesizer is called.
NowSeconds == 37

\* The calls that are followed: [food, months, min, db].
Scenario(f, months, min, d) == [food |-> f, months |-> months, min |-> min, db |-> d]

Scenarios ==
    {Scenario(f, 0, 750, SqliteFile) : f \in SynthCatalogs}
    \cup {Scenario(<<Quinoa, Almonds(CaloriesOnly(Num(579)))>>, 0, 0, SqliteFile)}
    \cup {Scenario(<<Quinoa>>, m, 750, SqliteFile) : m \in {-1, 1, 100000}}
    \cup {Scenario(<<Quinoa>>, 0, 750, d) :
            d \in {[file |-> "notadb", tables |-> {}, user |-> <<>>]}
                  \cup {[SqliteFile EXCEPT !.tables = AllTables \ {t},
                                           !.user = IF t = "user" THEN <<>> ELSE @] :
                           t \in AllTables}}

InitSynth ==
    \E sc \in Scenarios :
        /\ food = sc.food
        /\ db = sc.db
        /\ now = [day |-> Today0, min |-> sc.min, sec |-> NowSeconds]
        /\ run = Idle(1, sc.months)
        /\ food_log = <<>>
        /\ resp = [op |-> "none"]
        /\ pc = "idle" /\ attempt = 0 /\ conns = {} /\ pending = <<>> /\ requests = <<>>

NextSynth ==
    \/ Start
    \/ \E outcome \in {"ok", "connect_locked", "pragma_locked"} : Connect(outcome)
    \/ Check
    \/ Day
    \/ \E ok \in BOOLEAN : Commit(ok)

SpecSynth == InitSynth /\ [][NextSynth]_vars

\* Two calls in sequence for the same user.
InitTwice ==
    /\ food \in {<<Quinoa>>, <<Quinoa, Almonds(CaloriesOnly(Num(579)))>>}
    /\ db = SqliteFile
    /\ now = [day |-> Today0, min |-> 750, sec |-> NowSeconds]
    /\ run = Idle(1, 0)
    /\ food_log = <<>>
    /\ resp = [op |-> "none"]
    /\ pc = "idle" /\ attempt = 0 /\ conns = {} /\ pending = <<>> /\ requests = <<>>

NextTwice == NextSynth \/ StartAgain

\* One call with a one-food catalog: a range of one day followed up to a full
\* day of five rows, a range of 31 days and an empty range.
InitDay ==
    /\ food = <<Quinoa>>
    /\ db = SqliteFile
    /\ now = [day |-> Today0, min |-> 750, sec |-> NowSeconds]
    /\ run \in {[Idle(1, 0) EXCEPT !.budget = MaxDayRows], Idle(1, 1), Idle(1, -1)}
    /\ food_log = <<>>
    /\ resp = [op |-> "none"]
    /\ pc = "idle" /\ attempt = 0 /\ conns = {} /\ pending = <<>> /\ requests = <<>>

SpecDay == InitDay /\ [][NextSynth]_vars

\* One call with a one-food catalog over an empty range, one day and 31 days,
\* from the point where the first attempt has connected.
InitRange ==
    /\ food = <<Quinoa>>
    /\ db = SqliteFile
    /\ now = [day |-> Today0, min |-> 750, sec |-> NowSeconds]
    /\ run \in {[Idle(1, months) EXCEPT !.budget = MaxRangeRows, !.conn = 1] :
                    months \in {-1, 0, 1}}
    /\ food_log = <<>>
    /\ resp = [op |-> "none"]
    /\ pc = "check" /\ attempt = 0 /\ conns = {1} /\ pending = <<>> /\ requests = <<>>

NextRange ==
    \/ Check
    \/ Day
    \/ \E ok \in BOOLEAN : Commit(ok)

SpecRange == InitRange /\ [][NextRange]_vars

\* The call runs in one thread, which takes its next step whenever it has one.
SpecRangeFair == SpecRange /\ WF_vars(NextRange)

SpecTwice == InitTwice /\ [][NextTwice]_vars

----------------------------------------------------------------------------
(* The specification of the food selection *)

Named(name) == [name |-> name, nutrition_data |-> CaloriesOnly(Num(100))]

SelectCatalogs ==
    {<<Named("Quinoa Salad"), Named("Roasted ALMONDS"), Named("Tofu")>>,
     <<Named("oatmeal cookies"), Named("BANANA"), Named("Seitan")>>,
     <<Named("Tofu"), Named("Seitan")>>,
     <<Named("Baby spinach")>>}

\* The lists passed as available_foods: every row of the catalog, or one row.
AvailableLists == {AvailableFoods} \cup {<<id>> : id \in 1..Len(food)}

InitSelect ==
    /\ food \in SelectCatalogs
    /\ food_log = <<>>
    /\ now = [day |-> Today0, min |-> 750, sec |-> NowSeconds]
    /\ resp = [op |-> "none"]
    /\ SynthIdle

\* One call is followed in a behaviour.
NextSelect ==
    /\ resp.op = "none"
    /\ \E meal_type \in MealTypes, available_foods \in AvailableLists, season \in Seasons,
          extended \in BOOLEAN, choice \in 1..Len(food) :
             SelectFood(meal_type, available_foods, season, extended, choice)

SpecSelect == InitSelect /\ [][NextSelect]_vars

----------------------------------------------------------------------------
(* The specification of the operations that write food_log *)

\* Form posts to /food/log and /barcode/log-scanned.
LogForms ==
    {Form(1, 1, 50, "lunch", TRUE), Form(2, 1, 150, "brunch", TRUE),
     Form(1, 1, 0, "lunch", TRUE), Form(1, 1, -5, "lunch", TRUE),
     Form(1, 0, 50, "lunch", TRUE), Form(1, 9, 50, "lunch", TRUE),
     Form(1, 1, 50, "", TRUE), Form(1, 1, 50, "lunch", FALSE)}

ScanForms ==
    {Form(2, 1, 75, "snack", TRUE), Form(2, 1, -5, "snack", TRUE),
     Form(2, 1, 0, "snack", TRUE), Form(2, 1, 75, "", TRUE),
     Form(2, 1, 75, "snack", FALSE)}

\* JSON bodies posted to /api/food/log.
Body(f, q, m) == [food_id |-> f, quantity |-> q, meal_type |-> m]

LogBodies ==
    {Body(Num(1), q, Str("dinner")) :
        q \in {Num(30), Num(0), Num(-5), Bool(TRUE), Bool(FALSE), Str("30"), Null, List}}
    \cup {Body(Num(1), Num(30), Str("supper")), Body(Num(1), Num(30), Null),
          Body(Num(9), Num(30), Str("dinner")), Body(Null, Num(30), Str("dinner"))}

\* Form posts to /food/edit/<log_id>.
EditForm(q, m, c) == [quantity |-> q, meal_type |-> m, commit_ok |-> c]

EditForms ==
    {EditForm(200, "dinner", TRUE), EditForm(200, "elevenses", TRUE),
     EditForm(0, "dinner", TRUE), EditForm(-5, "dinner", TRUE),
     EditForm(200, "", TRUE), EditForm(200, "dinner", FALSE)}

InitLogs ==
    /\ food = <<Quinoa>>
    /\ db = SqliteFile
    /\ now = [day |-> Today0, min |-> 750, sec |-> NowSeconds]
    /\ run = Idle(1, 0)
    /\ food_log = <<>>
    /\ resp = [op |-> "none"]
    /\ pc = "idle" /\ attempt = 0 /\ conns = {} /\ pending = <<>> /\ requests = <<>>

\* A request to one of the views that write food_log.
LogRequest ==
    \/ \E r \in LogForms : Log(r.u, r.food_id, r.quantity, r.meal_type, r.commit_ok)
    \/ \E r \in ScanForms : LogScanned(r.u, r.food_id, r.quantity, r.meal_type, r.commit_ok)
    \/ \E u \in Users, csrf_ok \in BOOLEAN, data \in LogBodies, commit_ok \in BOOLEAN :
          LogFood(u, csrf_ok, data, commit_ok)
    \/ \E u \in Users, log_id \in 1..MaxLogs, commit_ok \in BOOLEAN :
          DeleteLog(u, log_id, commit_ok)
    \/ \E u \in Users, log_id \in 1..MaxLogs, r \in EditForms :
          EditLog(u, log_id, r.quantity, r.meal_type, "edited", r.commit_ok)

\* The requests are followed up to the call of the synthesizer, which is the
\* last operation of a behaviour.
NextLogs == (pc = "idle" /\ LogRequest) \/ NextSynth

SpecLogs == InitLogs /\ [][NextLogs]_vars

\* The requests of two users that write food_log, and the summary of each.
InitOwn ==
    /\ food = <<Quinoa>>
    /\ food_log = <<>>
    /\ now = [day |-> Today0, min |-> 750]
    /\ resp = [op |-> "none"]
    /\ SynthIdle

OwnForms == {Form(1, 1, 50, "lunch", TRUE), Form(2, 1, 150, "dinner", TRUE)}

NextOwn ==
    \/ \E r \in OwnForms : Log(r.u, r.food_id, r.quantity, r.meal_type, r.commit_ok)
    \/ \E u \in Users, log_id \in 1..MaxLogs : DeleteLog(u, log_id, TRUE)
    \/ \E u \in Users, log_id \in 1..MaxLogs : EditLog(u, log_id, 200, "dinner", "edited", TRUE)
    \/ \E u \in Users, days \in {1, 3} : NutritionSummary(u, days)

SpecOwn == InitOwn /\ [][NextOwn]_vars

----------------------------------------------------------------------------
(* Properties of the synthesizer *)

Returned == pc = "done" /\ resp.op = "synth"

GeneratedRows == {run.generated[i] : i \in 1..Len(run.generated)}

\* C5: a run is all-or-nothing: when it is over, food_log holds every row the
\* run inserted if the result is a success, and none of them otherwise.
C5_AllOrNothing ==
    Returned =>
        /\ pending = <<>>
        /\ resp.success => food_log = run.before \o run.generated
        /\ ~resp.success => food_log = run.before

\* A run has failed after it had inserted rows, and a run has succeeded with rows.
C5_Witness ==
    /\ Returned /\ ~resp.success /\ ~resp.raised
    /\ Len(run.generated) > 0
    /\ run.months = 1
    /\ \E i \in 1..Len(run.generated) : run.generated[i].logged_at.day = run.start_date.day

\* C6: no storage failure makes an exception leave the function: the run ends
\* with a success=False result.
C6_NeverRaises == Returned => ~resp.raised

\* C7: with no food row that has nutrient data the run fails and executes no INSERT.
NoFoodWithNutrition == \A i \in 1..Len(food) : food[i].nutrition_data.kind = "null"

C7_NoFoodsNoWrites ==
    (Returned /\ NoFoodWithNutrition)
    => /\ ~resp.raised /\ ~resp.success
       /\ run.generated = <<>>
       /\ food_log = run.before

\* The run has returned the no-foods failure for a food table whose rows all
\* have a NULL nutrient profile.
C7_Witness ==
    /\ Returned /\ NoFoodWithNutrition /\ Len(food) > 0
    /\ ~resp.success /\ resp.error = "No foods with nutrition data available"

\* C8: every row the synthesizer inserts has quantity > 0 and a meal type among
\* breakfast, lunch, dinner, snack.
C8_RowsValid ==
    \A r \in GeneratedRows : r.quantity > 0 /\ r.meal_type \in MealTypes

\* Rows with the smallest quantity of the default breakfast range and of the
\* calorie-dense range have been inserted.
C8_Witness ==
    /\ \E r \in GeneratedRows : r.quantity = 80 /\ r.meal_type = "breakfast"
    /\ \E r \in GeneratedRows : r.meal_type = "snack"

\* a <= b for datetimes
NotAfter(a, b) == a.day < b.day \/ (a.day = b.day /\ a.min <= b.min)

\* C9: every inserted row has start_date <= logged_at <= end_date.
C9_TimestampInRange ==
    \A r \in GeneratedRows :
        NotAfter(run.start_date, r.logged_at) /\ NotAfter(r.logged_at, run.end_date)

\* The calories-per-100g figure the heuristic is to use for a stored profile.
HeuristicCalories(col) ==
    IF col.kind # "object" \/ "calories_per_100g" \notin DOMAIN col.obj THEN 200
    ELSE LET v == col.obj["calories_per_100g"] IN
         CASE v.kind = "num" -> v.n
           [] v.kind = "bool" -> v.n
           [] v.kind = "str" /\ v.s = "120"   -> 120
           [] v.kind = "str" /\ v.s = " 600 " -> 600
           [] OTHER -> 200

InRange(q, lo, hi) == lo <= q /\ q <= hi

C11_TwoRunsAdditive ==
    (Returned /\ run.earlier # <<>> /\ resp.success /\ run.earlier[1].result.success)
    => LET first == run.earlier[1] IN
       /\ Len(food_log) = Len(first.before) + first.result.logs_created + resp.logs_created
       /\ run.before = first.before \o first.generated
       /\ SubSeq(food_log, 1, Len(run.before)) = run.before

\* Both runs have succeeded and the second has inserted a row equal in every
\* column to a row of the first.
C11_Witness ==
    /\ Returned /\ run.earlier # <<>> /\ resp.success /\ run.earlier[1].result.success
    /\ run.earlier[1].result.logs_created > 0 /\ resp.logs_created > 0
    /\ \E i \in 1..Len(run.generated) :
         \E j \in 1..Len(run.earlier[1].generated) :
            run.generated[i] = run.earlier[1].generated[j]

\* C19: the run makes at most 3 connection attempts.  An attempt that fails
\* with a locked database is followed by another attempt while fewer than 3
\* have been made; the third such failure ends the run with a success=False
\* result, no table read or written; an attempt that succeeds ends the
\* retrying and the run goes on with the connection of that attempt.  (A file
\* that is not a database is the case of C6.)
C19_ConnectRetry ==
    [][pc = "connect" =>
        /\ attempt' \in 0..(max_retries - 1)
        /\ \/ /\ attempt < max_retries - 1
              /\ pc' = "connect" /\ attempt' = attempt + 1
              /\ UNCHANGED <<food_log, pending, resp, run>>
           \/ /\ attempt = max_retries - 1
              /\ pc' = "done" /\ resp'.op = "synth" /\ ~resp'.success /\ ~resp'.raised
              /\ run.available_foods = <<>> /\ run.conn = 0
              /\ UNCHANGED <<food_log, pending, run, attempt>>
           \/ /\ pc' = "check" /\ run'.conn = attempt + 1 /\ run'.conn \in conns'
              /\ UNCHANGED <<food_log, pending, resp, attempt>>
           \/ /\ db.file # "sqlite"
              /\ pc' = "done" /\ resp'.raised]_vars

\* The third attempt has failed and the run has returned its failure result.
C19_Witness ==
    /\ Returned /\ ~resp.success /\ ~resp.raised
    /\ resp.error = "Database connection failed after 3 attempts"
    /\ attempt = max_retries - 1
    /\ food_log = run.before /\ run.generated = <<>>

RECURSIVE SumCounts(_, _)
SumCounts(counts, keys) ==
    IF keys = {} THEN 0
    ELSE LET k == CHOOSE x \in keys : TRUE
         IN counts[k] + SumCounts(counts, keys \ {k})

\* C20: in a success result logs_created is the number of rows the run
\* inserted and the sum of the counts of meal_breakdown, unique_dates is the
\* number of dates that received a row, and avg_calories_per_day is the rounded
\* sum of the rows' calories over unique_dates, 0 when no date received a row.
C20_ResultStatistics ==
    (Returned /\ resp.success)
    => LET rows == run.generated
           dates == {rows[i].logged_at.day : i \in 1..Len(rows)}
           calories == SumSeq([i \in 1..Len(rows) |->
                          StoredCaloriesPer100g(food[rows[i].food_id].nutrition_data.obj)
                          * rows[i].quantity])
       IN  /\ resp.logs_created = Len(rows)
           /\ resp.logs_created = SumCounts(resp.meal_breakdown, DOMAIN resp.meal_breakdown)
           /\ resp.unique_dates = Cardinality(dates)
           /\ resp.avg_calories_per_day =
                 IF dates = {} THEN 0 ELSE PyRound(calories, 100 * Cardinality(dates))

\* A run over 30 days has succeeded with rows on two dates.
C20_Witness ==
    /\ Returned /\ resp.success
    /\ resp.logs_created = 2 /\ resp.unique_dates = 2
    /\ resp.avg_calories_per_day > 0

----------------------------------------------------------------------------
(* Properties of the operations that write food_log *)

\* The rows of a table that user u does not own.
RowsOfOthers(table, u) == SelectSeq(table, LAMBDA r : r.user_id # u)

IsPrefix(a, b) == Len(a) <= Len(b) /\ SubSeq(b, 1, Len(a)) = a

\* C12: a delete_log or edit_log request leaves every row its user does not
\* own as it was, a request that does change the table addresses a row of its
\* user, and no other operation removes or changes a stored row.
C12_OwnerOnly ==
    [][IF resp'.op \in {"delete_log", "edit_log"}
       THEN /\ RowsOfOthers(food_log', resp'.user) = RowsOfOthers(food_log, resp'.user)
            /\ food_log' # food_log =>
                  /\ resp'.log_id \in 1..Len(food_log)
                  /\ food_log[resp'.log_id].user_id = resp'.user
       ELSE IsPrefix(food_log, food_log')]_vars

\* Both users own a row and a request against the other user's row has been
\* refused.
C12_Witness ==
    /\ resp.op \in {"delete_log", "edit_log"} /\ ~resp.ok
    /\ Len(food_log) = 2
    /\ {food_log[i].user_id : i \in 1..Len(food_log)} = Users
    /\ resp.log_id \in 1..Len(food_log)
    /\ food_log[resp.log_id].user_id # resp.user

\* C13: every stored row has quantity > 0, and a log or edit request with a
\* quantity of 0 or less is refused and leaves the table as it was.
C13_QuantityPositive ==
    [][/\ \A i \in 1..Len(food_log') : food_log'[i].quantity > 0
       /\ \A r \in LogForms \cup ScanForms :
           (/\ r.quantity <= 0
            /\ \/ Log(r.u, r.food_id, r.quantity, r.meal_type, r.commit_ok)
               \/ LogScanned(r.u, r.food_id, r.quantity, r.meal_type, r.commit_ok))
           => (food_log' = food_log /\ ~resp'.ok)
       /\ \A u \in Users, data \in LogBodies :
           (/\ data.quantity.kind \in {"num", "bool"} /\ data.quantity.n <= 0
            /\ LogFood(u, TRUE, data, TRUE))
           => (food_log' = food_log /\ ~resp'.ok)
       /\ \A u \in Users, log_id \in 1..MaxLogs, r \in EditForms :
           (/\ r.quantity <= 0
            /\ EditLog(u, log_id, r.quantity, r.meal_type, "edited", r.commit_ok))
           => (food_log' = food_log /\ ~resp'.ok)]_vars

\* The table holds a row an edit has set to 200 g and, below it, a row a
\* successful synthesizer run has inserted.
C13_Witness ==
    /\ Returned /\ resp.success
    /\ \E i \in 1..Len(food_log) :
         food_log[i].notes.text = "edited" /\ food_log[i].quantity = 200
    /\ \E i \in 1..Len(food_log) : food_log[i].notes.text = "Demo data for"

\* C14: every stored row has a meal type among breakfast, lunch, dinner, snack.
C14_MealTypeValid ==
    \A i \in 1..Len(food_log) : food_log[i].meal_type \in MealTypes

\* C17: no entry is fatal to the summary: when the range holds entries of the
\* user, whatever their foods' profiles (a null or unreadable value, a profile
\* that is not a key-to-value mapping), the summary is a success in which such a
\* value counts as zero and the other entries count in the total and in the
\* per-day map as they do without it.
C17_NoEntryFatal ==
    (/\ IsSummary
     /\ DateMinusDays(resp.today, resp.days - 1).exc = ""
     /\ DatesWithEntries(resp.user, resp.today, resp.days) # {})
    => LET logs == LogsInRange(resp.user, resp.today - (resp.days - 1), resp.today)
           counted == [i \in 1..Len(logs) |->
                         StoredCaloriesPer100g(food[logs[i].food_id].nutrition_data.obj)
                         * logs[i].quantity]
       IN  /\ resp.success
           /\ resp.total_calories = SumSeq(counted)
           /\ \A d \in DOMAIN resp.daily_data :
                 resp.daily_data[d].calories =
                    SumSeq([i \in 1..Len(logs) |->
                              IF logs[i].logged_at.day = d THEN counted[i] ELSE 0])

----------------------------------------------------------------------------
(* Properties of the nutrient views *)

\* The number stored under key in a profile: 0 when the key is absent or its
\* value is not a number.
StoredNumber(col, key) ==
    IF col.kind = "object" /\ key \in DOMAIN col.obj /\ col.obj[key].kind = "num"
    THEN col.obj[key].n ELSE 0

\* The rows of user u logged on date d.
RowsOn(u, d) == SelectSeq(food_log, LAMBDA r : r.user_id = u /\ r.logged_at.day = d)

\* value * quantity (hundredths) of a nutrient summed over the rows of a date.
ScaledSum(rows, key) ==
    SumSeq([i \in 1..Len(rows) |->
               StoredNumber(food[rows[i].food_id].nutrition_data, key) * rows[i].quantity])

PerHundred == [k \in BucketKeys \ {"calories"} |->
    CASE k = "protein" -> "protein_per_100g"
      [] k = "carbs"   -> "carbs_per_100g"
      [] k = "fat"     -> "fat_per_100g"
      [] k = "fiber"   -> "fiber_per_100g"
      [] k = "sugar"   -> "sugar_per_100g"
      [] OTHER         -> "sodium_per_100g"]

\* C15: in the dashboard's per-day map every bucket of protein, carbs, fat,
\* fiber, sugar and sodium holds the sum, over the user's entries of that date,
\* of the food's <nutrient>_per_100g value * quantity / 100.
C15_NutrientBuckets ==
    (resp.op = "nutrition" /\ ~resp.raised)
    => \A d \in DOMAIN resp.nutrition_data : \A k \in DOMAIN PerHundred :
          resp.nutrition_data[d][k] = ScaledSum(RowsOn(resp.user, d), PerHundred[k])

\* C16: get_nutrients has an entry for exactly the keys whose stored value is a
\* number, with value * quantity / 100; null, boolean, text and list values
\* have no entry and are not converted.
C16_OnlyNumbers ==
    (resp.op = "get_nutrients" /\ ProfileIsMapping(food[resp.log.food_id]))
    => LET obj == food[resp.log.food_id].nutrition_data.obj IN
       /\ resp.exc = ""
       /\ DOMAIN resp.d = {k \in DOMAIN obj : obj[k].kind = "num"}
       /\ \A k \in DOMAIN resp.d : resp.d[k] = obj[k].n * resp.log.quantity

----------------------------------------------------------------------------
(* Properties of the food table *)

\* C18: every number stored in the nutrient profile of a food row is
\* non-negative.
C18_NutrientsNonNegative ==
    \A i \in 1..Len(food) :
        LET col == food[i].nutrition_data IN
        col.kind = "object" =>
            \A k \in DOMAIN col.obj : col.obj[k].kind = "num" => col.obj[k].n >= 0

----------------------------------------------------------------------------
(* Properties of the rows of one synthesizer run *)

Hour(t) == t.min \div 60
Minute(t) == t.min % 60

\* The hours of the day a meal of the type may be logged at.
MealWindow(meal_type) ==
    CASE meal_type = "breakfast" -> 6..9
      [] meal_type = "lunch"     -> 11..14
      [] meal_type = "dinner"    -> 17..21
      [] meal_type = "snack"     -> {10, 15, 20}
      [] OTHER                   -> {}

\* C21: every row the synthesizer inserts has its hour inside the window of its
\* meal (breakfast 6-9, lunch 11-14, dinner 17-21, snack 10, 15 or 20), minutes
\* 0-59, seconds 0, and the calendar date of the day being iterated.
C21_MealTimeWindows ==
    \A i \in 1..Len(run.generated) :
        LET r == run.generated[i] IN
        /\ Hour(r.logged_at) \in MealWindow(r.meal_type)
        /\ Minute(r.logged_at) \in 0..59
        /\ r.logged_at.sec = 0
        /\ r.logged_at.day = r.notes.day

\* A run called at a time with seconds has inserted a dinner at 21:59 and a
\* snack at 20:59 on the first of 31 days.
C21_Witness ==
    /\ Returned /\ resp.success /\ now.sec # 0
    /\ Len(run.generated) = 2
    /\ run.generated[1].meal_type = "dinner" /\ run.generated[1].logged_at.min = 21 * 60 + 59
    /\ run.generated[2].meal_type = "snack" /\ run.generated[2].logged_at.min = 20 * 60 + 59
    /\ run.generated[1].notes.day = run.start_date.day
    /\ run.start_date.day < run.end_date.day

\* The number of rows of the run inserted while day d was iterated, of one meal type.
RowsOfDay(d, meal_type) ==
    Cardinality({i \in 1..Len(run.generated) :
                    /\ run.generated[i].notes.day = d
                    /\ run.generated[i].meal_type = meal_type})

\* C22: the rows inserted for one iterated day hold at most one breakfast, one
\* lunch, one dinner and two snacks (at most five rows), and a day on which the
\* roll "did the user log anything today" fails receives no row.
C22_RowsPerDay ==
    /\ \A i \in 1..Len(run.generated) :
          /\ run.generated[i].meal_type \in MealTypes
          /\ run.generated[i].notes.day \in LogDaySamples
          /\ \E j \in 1..Len(run.visited) : run.visited[j] = run.generated[i].notes.day
    /\ \A j \in 1..Len(run.visited) :
          LET d == run.visited[j] IN
          /\ RowsOfDay(d, "breakfast") <= 1
          /\ RowsOfDay(d, "lunch") <= 1
          /\ RowsOfDay(d, "dinner") <= 1
          /\ RowsOfDay(d, "snack") <= 2
          /\ Cardinality({i \in 1..Len(run.generated) : run.generated[i].notes.day = d}) <= 5

\* A run over one day has inserted the five rows of a full day.
C22_Witness ==
    /\ Returned /\ resp.success
    /\ run.visited = <<run.end_date.day>>
    /\ Len(run.generated) = 5
    /\ RowsOfDay(run.end_date.day, "snack") = 2
    /\ RowsOfDay(run.end_date.day, "breakfast") = 1
    /\ RowsOfDay(run.end_date.day, "lunch") = 1
    /\ RowsOfDay(run.end_date.day, "dinner") = 1

\* The days of the loop  while current_date <= end_date  in forward order.
DaysOfRange == [j \in 1..(run.end_date.day - run.start_date.day + 1) |->
                   run.start_date.day + j - 1]

\* C24: a run that has a connection and a non-empty catalog returns a success
\* or a failure result, and its loop visits each day from start_date to
\* end_date once in forward order: months * 30 + 1 days for months >= 0, none
\* for a negative months.
C24_LoopTerminates ==
    /\ [](pc = "loop" \/ (Returned /\ Len(run.visited) > 0)
             => IsPrefix(run.visited, DaysOfRange))
    /\ []((Returned /\ resp.success)
             => /\ run.visited = DaysOfRange
                /\ Len(run.visited) = IF run.months >= 0
                                      THEN run.months * DAYS_PER_MONTH + 1 ELSE 0)
    /\ (pc = "loop") ~> (Returned /\ ~resp.raised)

\* A run over 30 days has returned its success result after 31 visits.
C24_Witness ==
    /\ Returned /\ resp.success
    /\ run.months = 1 /\ Len(run.visited) = 31
    /\ run.visited[1] = run.end_date.day - 30 /\ run.visited[31] = run.end_date.day

\* C28: when the synthesizer returns a result, on whatever path, every
\* connection it has opened is closed.
C28_ConnectionsClosed == (Returned /\ ~resp.raised) => conns = {}

\* C30: a synthesizer run changes only food_log: every step leaves the food
\* table and the database file with its user table as they were, and every row
\* the run has inserted carries the user id passed in and the id of a Food
\* that exists and has a non-null nutrient profile.
C30_OnlyFoodLog ==
    [][/\ food' = food
       /\ db' = db
       /\ \A i \in 1..Len(run'.generated) :
             LET r == run'.generated[i] IN
             /\ r.user_id = run'.user_id
             /\ r.food_id \in DOMAIN food
             /\ food[r.food_id].nutrition_data.kind # "null"]_vars

\* A run for user 1 over a catalog with a food that has no profile has
\* committed two rows.
C30_Witness ==
    /\ Returned /\ resp.success
    /\ Len(run.generated) = 2 /\ food_log = run.generated
    /\ run.user_id = 1
    /\ \E id \in DOMAIN food : food[id].nutrition_data.kind = "null"
    /\ \E j \in 1..Len(db.user) : db.user[j].id = run.user_id

----------------------------------------------------------------------------
(* Properties of the food selection *)

\* The food's name contains, case-insensitively, a name of the pool.
NameInPool(id, pool) ==
    \E k \in 1..Len(pool) : IsSubstring(Lower(pool[k]), Lower(food[id].name))

ListMatches(ids, pool) == \E i \in 1..Len(ids) : NameInPool(ids[i], pool)

\* C23: for a non-empty list, the selection returns a member of the list; when
\* an available food matches the meal's pool, the returned food matches the
\* meal's or the season's pool; a food that does not match the pool in use is
\* returned only when no available food matches it.
C23_SelectionMatches ==
    resp.op = "select"
    => LET meal_pool == MEAL_PATTERNS[resp.meal_type].foods
           seasonal_pool == SEASONAL_FOODS[resp.season]
           used_pool == IF resp.extended THEN meal_pool \o seasonal_pool ELSE meal_pool
       IN  /\ \E i \in 1..Len(resp.available_foods) : resp.available_foods[i] = resp.food_id
           /\ ListMatches(resp.available_foods, meal_pool)
                 => NameInPool(resp.food_id, meal_pool \o seasonal_pool)
           /\ ~NameInPool(resp.food_id, used_pool)
                 => ~ListMatches(resp.available_foods, used_pool)

\* A snack chosen among three foods, one of which matches the pool, is the
\* matching food, whose name differs in case from the pool's.
C23_Witness ==
    /\ resp.op = "select" /\ resp.meal_type = "snack"
    /\ Len(resp.available_foods) = 3
    /\ food[resp.food_id].name = "Roasted ALMONDS"
    /\ ListMatches(resp.available_foods, MEAL_PATTERNS["snack"].foods)

----------------------------------------------------------------------------
(* Properties of the lookups by barcode *)

LookupOps == {"search_upc", "search", "scan"}

\* C25: a lookup of a barcode that a local Food carries succeeds with that
\* Food's id, creates no row and does not use the external source; a lookup of
\* a barcode with no local Food uses the external source, and a product found
\* and stored there adds exactly one row, which carries the barcode.
C25_CacheOrFetch ==
    [][(resp'.op \in LookupOps /\ resp'.upc # "")
          => IF HasUpc(food, resp'.upc)
             THEN /\ resp'.success
                  /\ resp'.food_id = IdOfUpc(food, resp'.upc)
                  /\ ~resp'.fetched
                  /\ food' = food
             ELSE /\ resp'.fetched
                  /\ IF resp'.found /\ resp'.success
                     THEN /\ Len(food') = Len(food) + 1
                          /\ SubSeq(food', 1, Len(food)) = food
                          /\ food'[resp'.food_id].upc_code = resp'.upc
                     ELSE food' = food]_vars

----------------------------------------------------------------------------
(* Properties of the analytics view *)

\* The user's rows inside the window of the analytics view.
WindowRows(u, today) ==
    SelectSeq(food_log, LAMBDA r : r.user_id = u /\ r.logged_at.day >= today - ANALYTICS_DAYS)

\* C26: the average daily calories of the analytics view is the total calories
\* of the window's entries divided by the number of days of the window (the 30
\* days before today, or 31 with today), and 0 when the window has no entry.
C26_AverageOverWindow ==
    (resp.op = "analytics" /\ ~resp.raised)
    => LET rows == WindowRows(resp.user, resp.today)
           total == SumSeq([i \in 1..Len(rows) |->
                       StoredCaloriesPer100g(food[rows[i].food_id].nutrition_data.obj)
                       * rows[i].quantity])
           avg == resp.avg_daily_calories
       IN  IF Len(rows) = 0 THEN avg[1] = 0
           ELSE \E window_days \in {ANALYTICS_DAYS, ANALYTICS_DAYS + 1} :
                   avg[1] * window_days = total * avg[2]

----------------------------------------------------------------------------
(* Properties of the summary's isolation *)

RowsOwnedBy(table, u) == SelectSeq(table, LAMBDA r : r.user_id = u)

\* C27: the summary of a user depends only on that user's rows: a step that
\* creates, edits or deletes rows of other users, and leaves the user's rows
\* and the date alone, leaves the user's summary (total calories, average,
\* per-day map and every other field) as it was.
C27_OwnRowsOnly ==
    [][\A u \in Users, days \in {1, 3} :
          (RowsOwnedBy(food_log', u) = RowsOwnedBy(food_log, u)
              /\ now' = now /\ food' = food)
          => nutrition_summary(u, days)' = nutrition_summary(u, days)]_vars

\* User 1 has received a summary with calories while the table also holds a
\* row that user 2 has created and edited.
C27_Witness ==
    /\ resp.op = "nutrition_summary" /\ resp.user = 1 /\ resp.success
    /\ resp.total_calories > 0
    /\ \E i \in 1..Len(food_log) :
          /\ food_log[i].user_id = 2 /\ food_log[i].notes.text = "edited"
          /\ food_log[i].logged_at.day = resp.today

\* C29: when two concurrent requests have looked up the same barcode, which
\* no local Food carried and which the external source finds, exactly one Food
\* row carries the barcode and both requests report success with that Food.
C29_ConcurrentLookups ==
    \A r1, r2 \in RequestIds :
        (/\ r1 # r2
         /\ requests[r1].pc = "done" /\ requests[r2].pc = "done"
         /\ requests[r1].upc = requests[r2].upc
         /\ \E r \in {r1, r2} : requests[r].found
         /\ \A r \in {r1, r2} : requests[r].found \/ requests[r].success)
        => /\ Cardinality({i \in 1..Len(food) : food[i].upc_code = requests[r1].upc}) = 1
           /\ requests[r1].success /\ requests[r2].success
           /\ requests[r1].food_id = IdOfUpc(food, requests[r1].upc)
           /\ requests[r2].food_id = requests[r1].food_id

====
